---- MODULE Spec2Model ----
(***************************************************************************)
(* Trash lifecycle of the teacher file organizer: the Hono handlers of     *)
(* server/app.ts over the Supabase repositories and the Google Drive       *)
(* client.  A request passes the /api/* middleware, then its handler,      *)
(* then its response is sent; a handler runs to completion before the      *)
(* next request starts.  Store reads succeed; every store write and every  *)
(* Drive call may fail.  A store delete removes exactly the addressed row. *)
(***************************************************************************)
EXTENDS Integers, FiniteSets, Sequences, TLC

\* ---------------------------------------------------------------- bounds
\* the events of a run that change the store or the clock: requests that
\* write to the store, and clock ticks
MaxEvents == 4

Users == {"u1", "u2"}
NoUser == "none"
Titles == {"t1"}
FileNames == {"n1"}
Statuses == {"active", "archived"}
\* a field that the body of a request does not give
NoValue == ""

\* null of a timestamp column and of a nullable id column
NullTime == 0
NullId == 0
\* a JWT payload without exp
NoExp == -1

VARIABLES
  now,           \* wall clock (Date.now / new Date())
  isProduction,  \* process.env.NODE_ENV === "production"
  projects,      \* table projects: id -> row
  folders,       \* table folders: id -> row
  files,         \* table files_metadata: id -> row
  nextProject,   \* next fresh id of each table (ids are never reused)
  nextFolder,
  nextFile,
  events,        \* store-writing requests and clock ticks so far; of the
                 \* requests served step by step, all that arrived
  cred,          \* what the request being served carried ("idle": none)
  ctxUserId,     \* c.get("userId") of the request being served
  resp,          \* the request as its handler saw it, and its answer
  providerTokensCache, \* SupabaseStorage.providerTokensCache: user -> entry
  driveConnections,    \* table drive_connections: user -> stored tokens
  nextToken,     \* the next access token the provider issues
  tokenCall,     \* the last call of the credential functions and its result
  shareLinks,    \* table share_links: id -> row
  nextShareLink, \* next fresh id of share_links
  shareReq,      \* the sharing requests being served, each at its await
  lifeReq,       \* the trash requests being served, each at its await
  tokenReq,      \* the calls of storeProviderToken and getProviderToken in
                 \* progress, each at its await
  tracking,      \* whether the provider's side below is followed
  drive,         \* the provider: kind -> id of the row -> status of its
                 \* object, followed until calls (below) records something
  calls,         \* history: whether a provider call failed or was not
                 \* issued, and whether a request other than a creation,
                 \* soft_delete, restore or hard_delete called the provider
  noting,        \* whether the history below is kept
  trashed        \* history: the row the previous request soft-deleted, as
                 \* it was before that request; kept while a restore, the
                 \* next request, is being answered

vars == <<now, isProduction, projects, folders, files,
          nextProject, nextFolder, nextFile, events, cred, ctxUserId, resp,
          providerTokensCache, driveConnections, nextToken, tokenCall,
          shareLinks, nextShareLink, shareReq, lifeReq, tokenReq,
          tracking, drive, calls,
          noting, trashed>>

\* what a handler leaves alone whatever it does
\* the provider credentials of the users; a handler reads them through
\* getValidProviderToken, whose result is the handler's choice between a
\* Drive call that is issued and one that is not
credentials == <<providerTokensCache, driveConnections, nextToken, tokenCall>>

\* the share links and the requests on them
sharing == <<shareLinks, nextShareLink, shareReq>>

frame == <<now, isProduction, noting, tracking, credentials, sharing,
           lifeReq, tokenReq>>

\* the provider's side as the model follows it
provider == <<tracking, drive, calls>>

store == <<projects, folders, files>>

\* ------------------------------------------------- identity of the caller
\* x-access-token header: absent, or a JWT whose payload has sub and exp
\* (sub = NoUser: payload without sub or not decodable)
Tokens == [present : {TRUE}, sub : Users \cup {NoUser},
           exp : {NoExp} \cup 0..(MaxEvents + 1)]
            \cup {[present |-> FALSE, sub |-> NoUser, exp |-> NoExp]}
Headers == Users \cup {NoUser}

\* c.get("userId") as set by the /api/* middleware
AuthMiddleware(tok, hdr, t, prod) ==
  IF tok.present
    THEN IF tok.sub # NoUser
           THEN IF tok.exp # NoExp /\ tok.exp # 0 /\ tok.exp < t THEN NoUser
                ELSE IF hdr # NoUser /\ hdr # tok.sub THEN NoUser
                ELSE tok.sub
           ELSE NoUser
    ELSE IF ~prod /\ hdr # NoUser THEN hdr
    ELSE NoUser

\* what the request carried: no credential at all, only an x-user-id
\* header, a token whose exp claim is in the past, or any other token
CredClass(tok, hdr, t) ==
  IF ~tok.present THEN (IF hdr = NoUser THEN "none" ELSE "header")
  ELSE IF tok.exp # NoExp /\ tok.exp < t THEN "expired"
  ELSE "token"

requireAuth(userId) == userId

\* ----------------------------------------------------------- repositories
\* outcome of the best-effort Drive call of a handler: not issued (no
\* provider token), issued and succeeded, issued and failed
MirrorOutcomes == {"none", "ok", "failed"}

\* if (row.drive_id) { token = getValidProviderToken(); if (token) try {call} }
Mirror(driveId, outcome) == IF driveId = NullId THEN "none" ELSE outcome

\* try { googleDrive.trashFile(...) } catch (driveError) { console.error }:
\* whether the error of the Drive call reaches the handler's outer catch
driveErrorRethrown(m) == m = "failed"
driveErrorPropagates(m) == FALSE

\* !project || project.user_id !== userId
noProject(project, userId) == project = {}
notOwner(project, userId) ==
  project = {} \/ \E p \in project : p.user_id # userId

\* !file || !file.is_deleted
notFound(rows) == rows = {}
activeRow(rows) == \E r \in rows : ~r.is_deleted
notInTrash(rows) == rows = {} \/ \E r \in rows : ~r.is_deleted

getProject(id) == IF id \in DOMAIN projects THEN {projects[id]} ELSE {}
getFolder(id) == IF id \in DOMAIN folders THEN {folders[id]} ELSE {}
getFile(id) == IF id \in DOMAIN files THEN {files[id]} ELSE {}

\* projectsRepository.getAll({user_id, is_deleted}): ids of the rows
projectsGetAllUnlessAsked(user, deleted) ==
  {p \in DOMAIN projects :
     projects[p].user_id = user /\ (deleted => projects[p].is_deleted)}
projectsGetAll(user, deleted) ==
  {p \in DOMAIN projects :
     projects[p].user_id = user /\ projects[p].is_deleted = deleted}
getProjects(user) == projectsGetAll(user, FALSE)
getDeletedProjects(user) == projectsGetAll(user, TRUE)

foldersGetAll(pid, deleted) ==
  {f \in DOMAIN folders :
     folders[f].project_id = pid /\ folders[f].is_deleted = deleted}
getFolders(pid) == foldersGetAll(pid, FALSE)
getDeletedFolders(pid) == foldersGetAll(pid, TRUE)

\* each file decided by the flag of the folder it is in, if it is in one
filesGetAllByFolder(pid, deleted) ==
  {f \in DOMAIN files :
     /\ files[f].project_id = pid
     /\ IF files[f].folder_id \in DOMAIN folders
          THEN folders[files[f].folder_id].is_deleted = deleted
          ELSE files[f].is_deleted = deleted}
filesGetAll(pid, deleted) ==
  {f \in DOMAIN files :
     files[f].project_id = pid /\ files[f].is_deleted = deleted}
getFiles(pid) == filesGetAll(pid, FALSE)
getAnyFiles(pid) == {f \in DOMAIN files : files[f].project_id = pid}
getDeletedFiles(pid) == filesGetAll(pid, TRUE)

\* update({is_deleted: true, deleted_at: now, updated_at: now}).eq('id', id)
softDeleteRow(row, t) ==
  [row EXCEPT !.is_deleted = TRUE, !.deleted_at = t, !.updated_at = t]

\* update({is_deleted: false, deleted_at: null, updated_at: now}).eq('id', id)
restoreRowKeepingDate(row, t) ==
  [row EXCEPT !.is_deleted = FALSE, !.updated_at = t]
restoreRow(row, t) ==
  [row EXCEPT !.is_deleted = FALSE, !.deleted_at = NullTime, !.updated_at = t]

\* update({...}).eq('id', id): the table with the rows selected by ids
\* soft-deleted; ok = FALSE: the store reported an error, nothing written
softDeleteWhere(table, ids, ok) ==
  IF ok
    THEN [i \in DOMAIN table |->
            IF i \in ids THEN softDeleteRow(table[i], now) ELSE table[i]]
  ELSE table

restoreWhere(table, ids, ok) ==
  IF ok
    THEN [i \in DOMAIN table |->
            IF i \in ids THEN restoreRow(table[i], now) ELSE table[i]]
  ELSE table

\* delete().eq('id', id)
deleteWhere(table, ids, ok) ==
  IF ok THEN [i \in DOMAIN table \ ids |-> table[i]] ELSE table

\* update({...updates, updated_at: now}) with the fields the body gave
patchRowAndRestore(row, updates, t) ==
  [row EXCEPT !.title = IF updates.title # NoValue THEN updates.title ELSE @,
              !.status = IF updates.status # NoValue THEN updates.status ELSE @,
              !.is_deleted = FALSE, !.deleted_at = NullTime,
              !.updated_at = t]
patchRow(row, updates, t) ==
  [row EXCEPT !.title = IF updates.title # NoValue THEN updates.title ELSE @,
              !.status = IF updates.status # NoValue THEN updates.status ELSE @,
              !.updated_at = t]

\* projectsRepository.updateWithoutUser: .update(...).eq('id', id)
projectsUpdateWithoutUser(id, updates, ok) ==
  IF ok
    THEN [i \in DOMAIN projects |->
            IF i = id THEN patchRow(projects[i], updates, now) ELSE projects[i]]
  ELSE projects

projectsSoftDelete(id, user, ok) ==
  softDeleteWhere(projects,
    {p \in DOMAIN projects : p = id /\ projects[p].user_id = user}, ok)

projectsRestore(id, user, ok) ==
  restoreWhere(projects,
    {p \in DOMAIN projects : p = id /\ projects[p].user_id = user}, ok)

projectsHardDelete(id, user, ok) ==
  deleteWhere(projects,
    {p \in DOMAIN projects : p = id /\ projects[p].user_id = user}, ok)

\* the folder and the folders directly in it
foldersSoftDeleteWithChildren(id, ok) ==
  softDeleteWhere(folders,
    {f \in DOMAIN folders : f = id \/ folders[f].parent_id = id}, ok)
foldersSoftDelete(id, ok) ==
  softDeleteWhere(folders, {id} \cap DOMAIN folders, ok)

foldersRestore(id, ok) == restoreWhere(folders, {id} \cap DOMAIN folders, ok)

foldersHardDelete(id, ok) == deleteWhere(folders, {id} \cap DOMAIN folders, ok)

filesSoftDelete(id, ok) == softDeleteWhere(files, {id} \cap DOMAIN files, ok)

filesRestore(id, ok) == restoreWhere(files, {id} \cap DOMAIN files, ok)

filesHardDelete(id, ok) == deleteWhere(files, {id} \cap DOMAIN files, ok)

\* ------------------------------------------------------------- responses
Kinds == {"project", "folder", "file"}
LifecycleOps == {"soft_delete", "restore", "hard_delete"}

Response(op, kind, id, caller, status, mirror, storeWrite, pre) ==
  [op |-> op, kind |-> kind, id |-> id, caller |-> caller,
   status |-> status, mirror |-> mirror, store |-> storeWrite, pre |-> pre,
   arg |-> {}]

\* the provider's side when it is not followed
NoDrive == [k \in Kinds |-> <<>>]

\* the status of a Drive object after trashFile, untrashFile and
\* permanentDeleteFile
StatusAfter(op) ==
  CASE op = "soft_delete" -> "trashed"
    [] op = "restore" -> "live"
    [] OTHER -> "absent"

\* the status of an object after a call on it that did not throw: Drive
\* answers 404 for an object that is gone, which the client takes as success
StatusNext(status, op) ==
  IF status = "absent" THEN "absent" ELSE StatusAfter(op)

\* the objects with ids marked absent
Deleted(objects, ids) ==
  [i \in DOMAIN objects |-> IF i \in ids THEN "absent" ELSE objects[i]]

\* the provider after the Drive calls of the request answered by r: an
\* object is live when created, and trashed, live again or absent after
\* a call on it that succeeded
DriveAfter(r) ==
  IF r.op \in LifecycleOps
    THEN IF r.mirror = "ok"
           THEN [drive EXCEPT ![r.kind][r.id] = StatusNext(@, r.op)]
         ELSE drive
  ELSE IF r.op = "create" /\ r.status = 201
    THEN LET id == IF r.kind = "project" THEN nextProject ELSE nextFolder
         IN [drive EXCEPT ![r.kind] =
               [i \in DOMAIN @ \cup {id} |-> IF i = id THEN "live" ELSE @[i]]]
  ELSE IF r.op = "upload" /\ r.status = 201
    THEN LET gone == UNION {a.deleted : a \in r.arg}
             kept == Deleted(drive["file"], gone)
         IN [drive EXCEPT !["file"] =
               IF \E a \in r.arg : a.created
                 THEN [i \in DOMAIN kept \cup {nextFile} |->
                         IF i = nextFile THEN "live" ELSE kept[i]]
               ELSE kept]
  ELSE IF r.op = "empty_trash" /\ r.status = 200
    THEN [drive EXCEPT
            !["file"] = Deleted(@, UNION {a.files : a \in r.arg}),
            !["folder"] = Deleted(@, UNION {a.folders : a \in r.arg})]
  ELSE drive

\* a Drive call of the request answered by r failed, or the request
\* changed a row without a Drive call because no provider token was had
NotMirrored(r) ==
  \/ r.mirror = "failed"
  \/ /\ r.op \in LifecycleOps \cup {"empty_trash"}
     /\ r.status = 200 /\ r.mirror = "none" /\ r.store # "none"

\* the request answered by r is an upload that replaced a file or an
\* empty_trash that found rows
OtherCalls(r) ==
  \/ r.op = "upload" /\ r.mirror # "none"
  \/ r.op = "empty_trash" /\ r.store # "none"

\* the handler answers: c.json(...) ends the request's context
Answer(r) ==
  /\ resp' = r
  /\ cred' = "idle"
  /\ ctxUserId' = NoUser
  /\ trashed' = IF ~noting THEN {}
                ELSE IF r.op = "soft_delete" /\ r.status = 200 /\ r.store = "ok"
                  THEN {[kind |-> r.kind, id |-> r.id, row |-> x] : x \in r.pre}
                ELSE IF r.op = "restore" THEN trashed
                ELSE {}
  /\ calls' = IF tracking
                THEN [failed |-> calls.failed \/ NotMirrored(r),
                      other |-> calls.other \/ OtherCalls(r)]
              ELSE calls
  /\ drive' = IF ~tracking THEN drive
              ELSE IF calls'.failed \/ calls'.other THEN NoDrive
              ELSE DriveAfter(r)

\* an early return: the handler answers and touches nothing
Reject(op, kind, id, caller, status) ==
  /\ Answer(Response(op, kind, id, caller, status, "none", "none", {}))
  /\ UNCHANGED <<frame, projects, folders, files,
                 nextProject, nextFolder, nextFile, events>>

\* catch (error) { return c.json({error}, 500) } after a Drive call
Abort(op, kind, id, caller, m) ==
  /\ Answer(Response(op, kind, id, caller, 500, m, "none", {}))
  /\ UNCHANGED <<frame, projects, folders, files,
                 nextProject, nextFolder, nextFile, events>>

\* the request wrote to the store (wrote) or did not
Wrote(wrote) ==
  /\ wrote => events < MaxEvents
  /\ events' = IF wrote THEN events + 1 ELSE events

StoreOutcome(ok) == IF ok THEN "ok" ELSE "failed"

\* the ids a request can name: those issued so far and one never issued
ProjectIds == 1..nextProject
FolderIds == 1..nextFolder
FileIds == 1..nextFile

\* the sharing requests that can be in progress at the same time
Requests == {"r1", "r2"}

\* ids are uuids: an id of share_links is the id of no project
shareLinkIdSpace == 1000

\* a request slot that serves nothing
NoRequest == [pc |-> "idle", op |-> "none", userId |-> NoUser, id |-> NullId,
              is_enabled |-> FALSE, status |-> 0, body |-> {}]

\* a request slot that serves no trash request
NoLife == [pc |-> "idle", op |-> "none", kind |-> "none", id |-> NullId,
           userId |-> NoUser, token |-> FALSE, phase |-> "none", todo |-> {},
           cur |-> {}, called |-> <<>>, refreshes |-> 0, mirror |-> "none",
           store |-> "none", at |-> NullTime, status |-> 0]

\* a slot in which no credential function runs
NoTokenCall == [pc |-> "idle", fn |-> "none", user |-> NoUser, entry |-> {}]

\* no call of the credential functions yet
NoCall == [fn |-> "none", user |-> NoUser, result |-> 0,
           refreshed |-> FALSE, read |-> FALSE]

\* no response in flight
NoResponse == [op |-> "idle", kind |-> "none", id |-> NullId, caller |-> NoUser,
               status |-> 0, mirror |-> "none", store |-> "none", pre |-> {},
               arg |-> {}]

Idle == cred = "idle" /\ resp = NoResponse
\* the middleware has run and the handler has not
Handling == cred # "idle" /\ resp = NoResponse

\* a store without rows
EmptyStore ==
  /\ projects = <<>>
  /\ folders = <<>>
  /\ files = <<>>
  /\ nextProject = 1
  /\ nextFolder = 1
  /\ nextFile = 1

\* a server that has just started
Started ==
  /\ now = 1
  /\ events = 0
  /\ drive = NoDrive
  /\ calls = [failed |-> FALSE, other |-> FALSE]
  /\ cred = "idle"
  /\ ctxUserId = NoUser
  /\ resp = NoResponse
  /\ trashed = {}
  /\ providerTokensCache = [u \in Users |-> {}]
  /\ driveConnections = [u \in Users |-> {}]
  /\ nextToken = 1
  /\ tokenCall = NoCall
  /\ shareLinks = <<>>
  /\ nextShareLink = shareLinkIdSpace + 1
  /\ shareReq = [r \in Requests |-> NoRequest]
  /\ lifeReq = [r \in Requests |-> NoLife]
  /\ tokenReq = [r \in Requests |-> NoTokenCall]

Start == EmptyStore /\ Started

\* a development server (NODE_ENV unset)
Init == Start /\ isProduction = FALSE /\ noting = FALSE /\ tracking = FALSE

\* either mode of the server
InitAuth ==
  Start /\ isProduction \in BOOLEAN /\ noting = FALSE /\ tracking = FALSE

\* a development server, keeping the history of soft deletes
InitHistory ==
  Start /\ isProduction = FALSE /\ noting = TRUE /\ tracking = FALSE

\* a development server, the provider's side followed
InitDrift == Start /\ isProduction = FALSE /\ noting = FALSE /\ tracking = TRUE

\* time passes between requests
Tick ==
  /\ Idle
  /\ events < MaxEvents
  /\ events' = events + 1
  /\ now' = now + 1
  /\ UNCHANGED <<isProduction, projects, folders, files, nextProject,
                 nextFolder, nextFile, cred, ctxUserId, resp,
                 noting, trashed, credentials, sharing, lifeReq, tokenReq, provider>>

\* app.use("/api/*"): a request arrives and the middleware sets userId
Authenticate(tok, hdr) ==
  /\ Idle
  /\ cred' = CredClass(tok, hdr, now)
  /\ ctxUserId' = AuthMiddleware(tok, hdr, now, isProduction)
  /\ UNCHANGED <<now, isProduction, projects, folders, files, nextProject,
                 nextFolder, nextFile, events, resp, noting, trashed,
                 credentials, sharing, lifeReq, tokenReq, provider>>

\* the response leaves
Respond ==
  /\ resp # NoResponse
  /\ resp' = NoResponse
  /\ trashed' = IF resp.op = "restore" THEN {} ELSE trashed
  /\ UNCHANGED <<now, isProduction, projects, folders, files, nextProject,
                 nextFolder, nextFile, events, cred, ctxUserId, noting,
                 credentials, sharing, lifeReq, tokenReq, provider>>

\* how a create request can go: getValidProviderToken gives null, the
\* Drive create/upload throws, the store insert throws, or all succeed
CreateOutcomes == {"no_token", "drive_failed", "insert_failed", "ok"}

\* ------------------------------------------------------- project handlers
\* the Drive calls of a create request: what became of the createFolder
\* call ("none": not issued) and the googleDrive.deleteFile calls that
\* clean up after it, with the outcome of the clean-up
Saga(container, cleanups, cleanupOk) ==
  {[container |-> container, cleanups |-> cleanups, cleanup_ok |-> cleanupOk]}

\* catch (createError) { try { googleDrive.deleteFile(...) } catch {} ... }
cleanupSkipped(inserted) == 0
cleanupAttempts(inserted) == IF inserted THEN 0 ELSE 1

\* POST /api/projects
CreateProject(userId, title) ==
  LET duplicateProject ==
        {p \in getProjects(userId) : projects[p].title = title}
      rej(status) == Reject("create", "project", NullId, userId, status)
      fail(status, container, mirror) ==
        /\ Answer([Response("create", "project", NullId, userId, status,
                            mirror, "none", {})
                     EXCEPT !.arg = Saga(container, 0, TRUE)])
        /\ UNCHANGED <<frame, projects, folders, files,
                       nextProject, nextFolder, nextFile, events>>
  IN IF requireAuth(userId) = NoUser THEN rej(401)
     ELSE IF duplicateProject # {} THEN rej(400)
     ELSE \E outcome \in CreateOutcomes :
       IF outcome = "no_token" THEN fail(400, "none", "none")
       ELSE IF outcome = "drive_failed" THEN fail(500, "failed", "failed")
       ELSE IF outcome = "insert_failed"
         THEN \* insert failed: compensating googleDrive.deleteFile, then 500
              \E cleanupOk \in BOOLEAN :
              /\ Answer([Response("create", "project", NullId, userId, 500,
                                   "ok", "failed", {})
                          EXCEPT !.arg = Saga("created", cleanupAttempts(FALSE),
                                              cleanupOk)])
              /\ UNCHANGED <<frame, projects, folders, files,
                             nextProject, nextFolder, nextFile, events>>
         ELSE /\ Wrote(TRUE)
              /\ projects' =
                   [i \in DOMAIN projects \cup {nextProject} |->
                      IF i = nextProject
                        THEN [user_id |-> userId, title |-> title,
                              status |-> "active",
                              root_drive_id |-> nextProject,
                              is_deleted |-> FALSE, deleted_at |-> NullTime,
                              updated_at |-> now]
                        ELSE projects[i]]
              /\ nextProject' = nextProject + 1
              /\ Answer([Response("create", "project", nextProject, userId, 201,
                                   "ok", "ok", {})
                          EXCEPT !.arg = Saga("created", cleanupAttempts(TRUE),
                                              TRUE)])
              /\ UNCHANGED <<frame, folders, files, nextFolder, nextFile>>

\* GET /api/projects
ListProjects(userId) ==
  IF requireAuth(userId) = NoUser
    THEN Reject("list_projects", "project", NullId, userId, 401)
  ELSE /\ Answer([Response("list_projects", "project", NullId, userId, 200,
                           "none", "none", {})
                  EXCEPT !.arg = {[projects |-> getProjects(userId)]}])
       /\ UNCHANGED <<frame, projects, folders, files,
                      nextProject, nextFolder, nextFile, events>>

\* GET /api/projects/deleted
ListDeletedProjects(userId) ==
  IF requireAuth(userId) = NoUser
    THEN Reject("list_deleted_projects", "project", NullId, userId, 401)
  ELSE /\ Answer([Response("list_deleted_projects", "project", NullId, userId,
                           200, "none", "none", {})
                  EXCEPT !.arg = {[projects |-> getDeletedProjects(userId)]}])
       /\ UNCHANGED <<frame, projects, folders, files,
                      nextProject, nextFolder, nextFile, events>>

\* the bodies of PATCH /api/projects/:id: const { title, status } = body
Updates == [title : Titles \cup {NoValue}, status : Statuses \cup {NoValue}]

\* PATCH /api/projects/:id
UpdateProject(userId, projectId, updates) ==
  LET project == getProject(projectId)
      rej(status) == Reject("patch", "project", projectId, userId, status)
  IN IF requireAuth(userId) = NoUser
       THEN Reject("patch", "project", NullId, userId, 401)
     ELSE IF project = {} THEN rej(404)
     ELSE IF notOwner(project, userId) THEN rej(403)
     ELSE \E storeOk \in BOOLEAN :
       /\ projects' = projectsUpdateWithoutUser(projectId, updates, storeOk)
       /\ Wrote(storeOk)
       /\ Answer(Response("patch", "project", projectId, userId, 200,
                           "none", StoreOutcome(storeOk), {}))
       /\ UNCHANGED <<frame, folders, files, nextProject, nextFolder, nextFile>>

\* DELETE /api/projects/:id
SoftDeleteProject(userId, projectId) ==
  LET project == getProject(projectId)
      rej(status) == Reject("soft_delete", "project", projectId, userId, status)
  IN IF requireAuth(userId) = NoUser
       THEN Reject("soft_delete", "project", NullId, userId, 401)
     ELSE IF project = {} THEN rej(404)
     ELSE IF notOwner(project, userId) THEN rej(403)
     ELSE \E mirror \in MirrorOutcomes, storeOk \in BOOLEAN :
       LET m == Mirror(projects[projectId].root_drive_id, mirror)
       IN IF driveErrorPropagates(m)
            THEN Abort("soft_delete", "project", projectId, userId, m)
          ELSE /\ projects' = projectsSoftDelete(projectId, userId, storeOk)
               /\ Wrote(storeOk)
               /\ Answer(Response("soft_delete", "project", projectId, userId, 200,
                                   m, StoreOutcome(storeOk), project))
               /\ UNCHANGED <<frame, folders, files, nextProject, nextFolder, nextFile>>

\* POST /api/projects/:id/restore
RestoreProject(userId, projectId) ==
  LET deletedProjects == getDeletedProjects(userId)
      \* deletedProjects.find(p => p.id === projectId)
      project == {projects[p] : p \in deletedProjects \cap {projectId}}
      rej(status) == Reject("restore", "project", projectId, userId, status)
  IN IF requireAuth(userId) = NoUser
       THEN Reject("restore", "project", NullId, userId, 401)
     ELSE IF project = {} THEN rej(404)
     ELSE IF notOwner(project, userId) THEN rej(403)
     ELSE \E mirror \in MirrorOutcomes, storeOk \in BOOLEAN :
       LET m == Mirror(projects[projectId].root_drive_id, mirror)
       IN IF driveErrorPropagates(m)
            THEN Abort("restore", "project", projectId, userId, m)
          ELSE /\ projects' = projectsRestore(projectId, userId, storeOk)
               /\ Wrote(storeOk)
               /\ Answer(Response("restore", "project", projectId, userId, 200,
                                   m, StoreOutcome(storeOk), {}))
               /\ UNCHANGED <<frame, folders, files, nextProject, nextFolder, nextFile>>

\* DELETE /api/projects/:id/permanent
HardDeleteProject(userId, projectId) ==
  LET deletedProjects == getDeletedProjects(userId)
      \* deletedProjects.find(p => p.id === projectId)
      project == {projects[p] : p \in deletedProjects \cap {projectId}}
      rej(status) == Reject("hard_delete", "project", projectId, userId, status)
  IN IF requireAuth(userId) = NoUser
       THEN Reject("hard_delete", "project", NullId, userId, 401)
     ELSE IF project = {} THEN rej(404)
     ELSE IF notOwner(project, userId) THEN rej(403)
     ELSE \E mirror \in MirrorOutcomes, storeOk \in BOOLEAN :
       LET m == Mirror(projects[projectId].root_drive_id, mirror)
       IN IF driveErrorPropagates(m)
            THEN Abort("hard_delete", "project", projectId, userId, m)
          ELSE /\ projects' = projectsHardDelete(projectId, userId, storeOk)
               /\ Wrote(storeOk)
               /\ Answer(Response("hard_delete", "project", projectId, userId, 200,
                                   m, StoreOutcome(storeOk), {}))
               /\ UNCHANGED <<frame, folders, files, nextProject, nextFolder, nextFile>>

\* -------------------------------------------------------- folder handlers
\* DELETE /api/folders/:id
SoftDeleteFolder(userId, folderId) ==
  LET folder == getFolder(folderId)
      project == UNION {getProject(r.project_id) : r \in folder}
      rej(status) == Reject("soft_delete", "folder", folderId, userId, status)
  IN IF requireAuth(userId) = NoUser
       THEN Reject("soft_delete", "folder", NullId, userId, 401)
     ELSE IF folder = {} THEN rej(404)
     ELSE IF notOwner(project, userId) THEN rej(403)
     ELSE \E mirror \in MirrorOutcomes, storeOk \in BOOLEAN :
       LET m == Mirror(folders[folderId].drive_folder_id, mirror)
       IN IF driveErrorPropagates(m)
            THEN Abort("soft_delete", "folder", folderId, userId, m)
          ELSE /\ folders' = foldersSoftDelete(folderId, storeOk)
               /\ Wrote(storeOk)
               /\ Answer(Response("soft_delete", "folder", folderId, userId, 200,
                                   m, StoreOutcome(storeOk), folder))
               /\ UNCHANGED <<frame, projects, files, nextProject, nextFolder, nextFile>>

\* POST /api/folders/:id/restore
RestoreFolder(userId, folderId) ==
  LET folder == getFolder(folderId)
      project == UNION {getProject(r.project_id) : r \in folder}
      rej(status) == Reject("restore", "folder", folderId, userId, status)
  IN IF requireAuth(userId) = NoUser
       THEN Reject("restore", "folder", NullId, userId, 401)
     ELSE IF notInTrash(folder) THEN rej(404)
     ELSE IF notOwner(project, userId) THEN rej(403)
     ELSE \E mirror \in MirrorOutcomes, storeOk \in BOOLEAN :
       LET m == Mirror(folders[folderId].drive_folder_id, mirror)
       IN IF driveErrorPropagates(m)
            THEN Abort("restore", "folder", folderId, userId, m)
          ELSE /\ folders' = foldersRestore(folderId, storeOk)
               /\ Wrote(storeOk)
               /\ Answer(Response("restore", "folder", folderId, userId, 200,
                                   m, StoreOutcome(storeOk), {}))
               /\ UNCHANGED <<frame, projects, files, nextProject, nextFolder, nextFile>>

\* DELETE /api/folders/:id/permanent
HardDeleteFolder(userId, folderId) ==
  LET folder == getFolder(folderId)
      project == UNION {getProject(r.project_id) : r \in folder}
      rej(status) == Reject("hard_delete", "folder", folderId, userId, status)
  IN IF requireAuth(userId) = NoUser
       THEN Reject("hard_delete", "folder", NullId, userId, 401)
     ELSE IF notInTrash(folder) THEN rej(404)
     ELSE IF notOwner(project, userId) THEN rej(403)
     ELSE \E mirror \in MirrorOutcomes, storeOk \in BOOLEAN :
       LET m == Mirror(folders[folderId].drive_folder_id, mirror)
       IN IF driveErrorPropagates(m)
            THEN Abort("hard_delete", "folder", folderId, userId, m)
          ELSE /\ folders' = foldersHardDelete(folderId, storeOk)
               /\ Wrote(storeOk)
               /\ Answer(Response("hard_delete", "folder", folderId, userId, 200,
                                   m, StoreOutcome(storeOk), {}))
               /\ UNCHANGED <<frame, projects, files, nextProject, nextFolder, nextFile>>

\* ---------------------------------------------------------- file handlers
\* DELETE /api/files/:id
SoftDeleteFile(userId, fileId) ==
  LET file == getFile(fileId)
      project == UNION {getProject(r.project_id) : r \in file}
      rej(status) == Reject("soft_delete", "file", fileId, userId, status)
  IN IF requireAuth(userId) = NoUser
       THEN Reject("soft_delete", "file", NullId, userId, 401)
     ELSE IF file = {} THEN rej(404)
     ELSE IF notOwner(project, userId) THEN rej(403)
     ELSE \E mirror \in MirrorOutcomes, storeOk \in BOOLEAN :
       LET m == Mirror(files[fileId].drive_file_id, mirror)
       IN IF driveErrorPropagates(m)
            THEN Abort("soft_delete", "file", fileId, userId, m)
          ELSE /\ files' = filesSoftDelete(fileId, storeOk)
               /\ Wrote(storeOk)
               /\ Answer(Response("soft_delete", "file", fileId, userId, 200,
                                   m, StoreOutcome(storeOk), file))
               /\ UNCHANGED <<frame, projects, folders, nextProject, nextFolder, nextFile>>

\* POST /api/files/:id/restore
RestoreFile(userId, fileId) ==
  LET file == getFile(fileId)
      project == UNION {getProject(r.project_id) : r \in file}
      rej(status) == Reject("restore", "file", fileId, userId, status)
  IN IF requireAuth(userId) = NoUser
       THEN Reject("restore", "file", NullId, userId, 401)
     ELSE IF notInTrash(file) THEN rej(404)
     ELSE IF notOwner(project, userId) THEN rej(403)
     ELSE \E mirror \in MirrorOutcomes, storeOk \in BOOLEAN :
       LET m == Mirror(files[fileId].drive_file_id, mirror)
       IN IF driveErrorPropagates(m)
            THEN Abort("restore", "file", fileId, userId, m)
          ELSE /\ files' = filesRestore(fileId, storeOk)
               /\ Wrote(storeOk)
               /\ Answer(Response("restore", "file", fileId, userId, 200,
                                   m, StoreOutcome(storeOk), {}))
               /\ UNCHANGED <<frame, projects, folders, nextProject, nextFolder, nextFile>>

\* DELETE /api/files/:id/permanent
HardDeleteFile(userId, fileId) ==
  LET file == getFile(fileId)
      project == UNION {getProject(r.project_id) : r \in file}
      rej(status) == Reject("hard_delete", "file", fileId, userId, status)
  IN IF requireAuth(userId) = NoUser
       THEN Reject("hard_delete", "file", NullId, userId, 401)
     ELSE IF notInTrash(file) THEN rej(404)
     ELSE IF notOwner(project, userId) THEN rej(403)
     ELSE \E mirror \in MirrorOutcomes, storeOk \in BOOLEAN :
       LET m == Mirror(files[fileId].drive_file_id, mirror)
       IN IF driveErrorPropagates(m)
            THEN Abort("hard_delete", "file", fileId, userId, m)
          ELSE /\ files' = filesHardDelete(fileId, storeOk)
               /\ Wrote(storeOk)
               /\ Answer(Response("hard_delete", "file", fileId, userId, 200,
                                   m, StoreOutcome(storeOk), {}))
               /\ UNCHANGED <<frame, projects, folders, nextProject, nextFolder, nextFile>>

\* ------------------------------------------------------ creation handlers
\* a Drive id: the id of the object that the provider made for a project
\* row or for a folder row
DriveRef(kind, driveId) == <<kind, driveId>>

\* let parentDriveId = project.root_drive_id; if (parent_folder_id) {
\* parentFolder = await storage.getFolder(parent_folder_id); if (parentFolder
\* && parentFolder.drive_folder_id) parentDriveId = parentFolder.drive_folder_id }
rootDriveId(project, parent_folder_id) ==
  {DriveRef("project", p.root_drive_id) : p \in project}
parentDriveId(project, parent_folder_id) ==
  LET parentFolder == IF parent_folder_id # NullId
                        THEN getFolder(parent_folder_id) ELSE {}
      referred == {f \in parentFolder : f.drive_folder_id # NullId}
  IN IF referred # {}
       THEN {DriveRef("folder", f.drive_folder_id) : f \in referred}
     ELSE {DriveRef("project", p.root_drive_id) : p \in project}

\* POST /api/projects/:id/folders
CreateFolder(userId, projectId, parent_folder_id) ==
  LET project == getProject(projectId)
      rej(status) == Reject("create", "folder", projectId, userId, status)
  IN IF requireAuth(userId) = NoUser THEN Reject("create", "folder", NullId, userId, 401)
     ELSE IF project = {} THEN rej(404)
     ELSE IF notOwner(project, userId) THEN rej(403)
     ELSE \E outcome \in CreateOutcomes :
       IF outcome = "no_token" THEN rej(400)
       ELSE IF outcome = "drive_failed" THEN rej(500)
       ELSE IF outcome = "insert_failed"
         THEN /\ Answer(Response("create", "folder", projectId, userId, 500,
                                  "ok", "failed", {}))
              /\ UNCHANGED <<frame, projects, folders, files,
                             nextProject, nextFolder, nextFile, events>>
         ELSE /\ Wrote(TRUE)
              /\ folders' =
                   [i \in DOMAIN folders \cup {nextFolder} |->
                      IF i = nextFolder
                        THEN [project_id |-> projectId,
                              parent_id |-> parent_folder_id,
                              drive_folder_id |-> nextFolder,
                              is_deleted |-> FALSE, deleted_at |-> NullTime,
                              updated_at |-> now]
                        ELSE folders[i]]
              /\ nextFolder' = nextFolder + 1
              /\ Answer([Response("create", "folder", projectId, userId, 201,
                                   "ok", "ok", {})
                          EXCEPT !.arg =
                            {[parent_folder_id |-> parent_folder_id,
                              parent |-> parentDriveId(project, parent_folder_id),
                              drive_id |-> nextFolder]}])
              /\ UNCHANGED <<frame, projects, files, nextProject, nextFile>>

Newest(ids) == CHOOSE i \in ids : \A j \in ids : j <= i

\* POST /api/projects/:id/files, one file in the body
UploadFile(userId, projectId, folderId, name, replaceExisting) ==
  LET project == getProject(projectId)
      rej(status) == Reject("upload", "file", projectId, userId, status)
      matches == {f \in getFiles(projectId) :
                    files[f].file_name = name /\ files[f].folder_id = folderId}
      \* allFiles.find(...): the first match of the list, newest first
      existingFile == IF replaceExisting /\ matches # {}
                        THEN {Newest(matches)} ELSE {}
      replaced == {f \in existingFile : files[f].drive_file_id # NullId}
  IN IF requireAuth(userId) = NoUser THEN Reject("upload", "file", NullId, userId, 401)
     ELSE IF project = {} THEN rej(404)
     ELSE IF notOwner(project, userId) THEN rej(403)
     ELSE \E outcome \in CreateOutcomes :
       IF outcome = "no_token" THEN rej(400)
       ELSE \E deleteOk \in (IF replaced = {} THEN {"none"}
                             ELSE {"ok", "drive_failed", "store_failed"}) :
         LET \* try { googleDrive.deleteFile; storage.hardDeleteFile } catch {}
             afterReplace == deleteWhere(files, replaced, deleteOk = "ok")
             created == outcome = "ok"
         IN /\ Wrote(created \/ deleteOk = "ok")
            /\ files' =
                 IF created
                   THEN [i \in DOMAIN afterReplace \cup {nextFile} |->
                           IF i = nextFile
                             THEN [project_id |-> projectId,
                                   folder_id |-> folderId,
                                   drive_file_id |-> nextFile,
                                   file_name |-> name,
                                   is_deleted |-> FALSE,
                                   deleted_at |-> NullTime,
                                   updated_at |-> now]
                             ELSE afterReplace[i]]
                   ELSE afterReplace
            /\ nextFile' = IF created THEN nextFile + 1 ELSE nextFile
            /\ Answer([Response("upload", "file", projectId, userId, 201,
                         IF deleteOk = "none" THEN "none"
                         ELSE IF deleteOk = "drive_failed" THEN "failed"
                         ELSE "ok",
                         IF deleteOk = "store_failed" \/ outcome = "insert_failed"
                           THEN "failed"
                         ELSE IF deleteOk = "ok" \/ created THEN "ok"
                         ELSE "none",
                         {})
                 EXCEPT !.arg = {[file_name |-> name, folder_id |-> folderId,
                                  replace_existing |-> replaceExisting,
                                  deleted |-> IF deleteOk \in {"ok", "store_failed"}
                                                THEN replaced ELSE {},
                                  created |-> created,
                                  parent |-> parentDriveId(project, folderId),
                                  drive_id |-> nextFile]}])
            /\ UNCHANGED <<frame, projects, folders, nextProject, nextFolder>>

\* -------------------------------------------------------- trash of a project
\* GET /api/projects/:id/trash
ListTrash(userId, projectId) ==
  LET project == getProject(projectId)
      rej(status) == Reject("list_trash", "project", projectId, userId, status)
  IN IF requireAuth(userId) = NoUser THEN Reject("list_trash", "project", NullId, userId, 401)
     ELSE IF project = {} THEN rej(404)
     ELSE IF notOwner(project, userId) THEN rej(403)
     ELSE \* c.json({files: deletedFiles, folders: deletedFolders})
          /\ Answer([Response("list_trash", "project", projectId, userId, 200,
                              "none", "none", {})
                     EXCEPT !.arg = {[files |-> getDeletedFiles(projectId),
                                      folders |-> getDeletedFolders(projectId)]}])
          /\ UNCHANGED <<frame, projects, folders, files,
                         nextProject, nextFolder, nextFile, events>>

\* the rows of an empty_trash whose Drive delete, and whose store delete, fail
Failures(pid) == [files : SUBSET getDeletedFiles(pid),
                  folders : SUBSET getDeletedFolders(pid)]

\* DELETE /api/projects/:id/trash
EmptyTrash(userId, projectId) ==
  LET project == getProject(projectId)
      rej(status) == Reject("empty_trash", "project", projectId, userId, status)
      deletedFiles == getDeletedFiles(projectId)
      deletedFolders == getDeletedFolders(projectId)
  IN IF requireAuth(userId) = NoUser THEN Reject("empty_trash", "project", NullId, userId, 401)
     ELSE IF project = {} THEN rej(404)
     ELSE IF notOwner(project, userId) THEN rej(403)
     ELSE \E tokenOk \in BOOLEAN, storeFail \in Failures(projectId) :
       \E mirrorFail \in (IF tokenOk THEN Failures(projectId)
                          ELSE {[files |-> {}, folders |-> {}]}) :
       LET called ==
             IF tokenOk
               THEN {f \in deletedFiles : files[f].drive_file_id # NullId}
                    \cup {f \in deletedFolders :
                            folders[f].drive_folder_id # NullId}
               ELSE {}
       IN /\ Wrote((deletedFiles \ storeFail.files) \cup
                   (deletedFolders \ storeFail.folders) # {})
          /\ files' = deleteWhere(files, deletedFiles \ storeFail.files, TRUE)
          /\ folders' =
               deleteWhere(folders, deletedFolders \ storeFail.folders, TRUE)
          /\ Answer([Response("empty_trash", "project", projectId, userId, 200,
                       IF called = {} THEN "none"
                       ELSE IF mirrorFail.files \cup mirrorFail.folders # {}
                         THEN "failed" ELSE "ok",
                       IF deletedFiles \cup deletedFolders = {} THEN "none"
                       ELSE StoreOutcome(storeFail.files = {} /\
                                         storeFail.folders = {}),
                       {})
                 EXCEPT !.arg =
                   IF tokenOk
                     THEN {[files |-> deletedFiles \ mirrorFail.files,
                            folders |-> deletedFolders \ mirrorFail.folders]}
                   ELSE {}])
          /\ UNCHANGED <<frame, projects, nextProject, nextFolder, nextFile>>

\* ---------------------------------------------------------- specification
Next ==
  \/ Tick
  \/ \E tok \in Tokens, hdr \in Headers : Authenticate(tok, hdr)
  \/ Handling /\ \E title \in Titles : CreateProject(ctxUserId, title)
  \/ Handling /\ ListProjects(ctxUserId)
  \/ Handling /\ ListDeletedProjects(ctxUserId)
  \/ Handling /\ \E id \in ProjectIds, updates \in Updates :
                    UpdateProject(ctxUserId, id, updates)
  \/ Handling /\ \E id \in ProjectIds : SoftDeleteProject(ctxUserId, id)
  \/ Handling /\ \E id \in ProjectIds : RestoreProject(ctxUserId, id)
  \/ Handling /\ \E id \in ProjectIds : HardDeleteProject(ctxUserId, id)
  \/ Handling /\ \E id \in ProjectIds, parent \in {NullId} \cup DOMAIN folders :
                    CreateFolder(ctxUserId, id, parent)
  \/ Handling /\ \E id \in FolderIds : SoftDeleteFolder(ctxUserId, id)
  \/ Handling /\ \E id \in FolderIds : RestoreFolder(ctxUserId, id)
  \/ Handling /\ \E id \in FolderIds : HardDeleteFolder(ctxUserId, id)
  \/ Handling /\ \E id \in ProjectIds, folderId \in {NullId} \cup DOMAIN folders,
                    name \in FileNames, replace \in BOOLEAN :
                    UploadFile(ctxUserId, id, folderId, name, replace)
  \/ Handling /\ \E id \in FileIds : SoftDeleteFile(ctxUserId, id)
  \/ Handling /\ \E id \in FileIds : RestoreFile(ctxUserId, id)
  \/ Handling /\ \E id \in FileIds : HardDeleteFile(ctxUserId, id)
  \/ Handling /\ \E id \in ProjectIds : ListTrash(ctxUserId, id)
  \/ Handling /\ \E id \in ProjectIds : EmptyTrash(ctxUserId, id)
  \/ Respond

Spec == Init /\ [][Next]_vars

SpecAuth == InitAuth /\ [][Next]_vars

SpecHistory == InitHistory /\ [][Next]_vars

SpecDrift == InitDrift /\ [][Next]_vars

\* a development server on a store that holds a project with one folder,
\* a second folder of the project having been purged
InitCreate ==
  /\ Started
  /\ isProduction = FALSE
  /\ noting = FALSE
  /\ tracking = FALSE
  /\ projects = [i \in {1} |->
                   [user_id |-> "u1", title |-> "t1", status |-> "active",
                    root_drive_id |-> 1, is_deleted |-> FALSE,
                    deleted_at |-> NullTime, updated_at |-> now]]
  /\ nextProject = 2
  /\ folders = [i \in {1} |->
                  [project_id |-> 1, parent_id |-> NullId,
                   drive_folder_id |-> 1, is_deleted |-> FALSE,
                   deleted_at |-> NullTime, updated_at |-> now]]
  /\ nextFolder = 3
  /\ files = <<>>
  /\ nextFile = 1

\* requests that create folders and files, the parent folder in the body
\* being any id that was issued
NextCreate ==
  \/ \E tok \in Tokens, hdr \in Headers : Authenticate(tok, hdr)
  \/ Handling /\ \E id \in ProjectIds,
                    parent \in {NullId} \cup 1..(nextFolder - 1) :
                    CreateFolder(ctxUserId, id, parent)
  \/ Handling /\ \E id \in ProjectIds,
                    folderId \in {NullId} \cup 1..(nextFolder - 1),
                    name \in FileNames, replace \in BOOLEAN :
                    UploadFile(ctxUserId, id, folderId, name, replace)
  \/ Respond

SpecCreate == InitCreate /\ [][NextCreate]_vars

\* ------------------------------------------------- provider credentials
\* an entry of the cache or of the store: no tokens, or an access token
\* and whether a refresh token comes with it
Entry(token, refreshToken) ==
  {[token |-> token, refreshToken |-> refreshToken]}

\* this.providerTokensCache.set(userId, {token, refreshToken})
cacheNotSet(cache, userId, entry) == cache
cacheSet(cache, userId, entry) == [cache EXCEPT ![userId] = entry]

\* clearProviderTokenCache: this.providerTokensCache.delete(userId)
clearProviderTokenCache(cache, userId) == [cache EXCEPT ![userId] = {}]

\* SupabaseStorage.getProviderToken: what it returns, and the cache after
getProviderToken(userId) ==
  IF providerTokensCache[userId] # {} THEN providerTokensCache[userId]
  ELSE driveConnections[userId]
cacheAfterGet(userId) ==
  IF providerTokensCache[userId] # {} THEN providerTokensCache
  ELSE IF driveConnections[userId] # {}
    THEN cacheSet(providerTokensCache, userId, driveConnections[userId])
  ELSE providerTokensCache

\* SupabaseStorage.storeProviderToken, the cache being cache before it:
\* storeTokens throws when the upsert fails, and the cache is set after it
storeProviderToken(cache, userId, entry, ok) ==
  /\ driveConnections' =
       IF ok THEN [driveConnections EXCEPT ![userId] = entry]
       ELSE driveConnections
  /\ providerTokensCache' =
       IF ok THEN cacheSet(cache, userId, entry) ELSE cache

TokenCall(fn, userId, result, refreshed, read) ==
  [fn |-> fn, user |-> userId, result |-> result,
   refreshed |-> refreshed, read |-> read]

\* the main variables, which the credential functions leave alone
requests == <<now, isProduction, projects, folders, files, nextProject,
              nextFolder, nextFile, cred, ctxUserId, resp, noting, trashed,
              lifeReq, tokenReq, provider>>

\* a call of SupabaseStorage.getProviderToken(userId)
GetProviderToken(userId) ==
  /\ providerTokensCache' = cacheAfterGet(userId)
  /\ tokenCall' =
       TokenCall("getProviderToken", userId,
                 IF getProviderToken(userId) = {} THEN 0
                 ELSE (CHOOSE e \in getProviderToken(userId) : TRUE).token,
                 FALSE, providerTokensCache[userId] = {})
  /\ UNCHANGED <<requests, sharing, events, driveConnections, nextToken>>

\* how the probe of the Drive API with the current token can go
TestOutcomes == {"ok", "rejected", "threw"}

\* googleDrive.refreshAccessToken calls of one getValidProviderToken call
refreshAttempts(tokens, test, envOk) ==
  IF tokens # {} /\ test = "rejected" /\ (\E e \in tokens : e.refreshToken)
       /\ envOk
    THEN 1 ELSE 0

\* getValidProviderToken(userId): what it does to the credentials
getValidProviderToken(userId, test, envOk, refreshOk, storeOk) ==
  LET tokens == getProviderToken(userId)
      current == IF tokens = {} THEN 0 ELSE (CHOOSE e \in tokens : TRUE).token
      read == providerTokensCache[userId] = {}
      \* a return that leaves the tokens as storage.getProviderToken did
      return(result) ==
        /\ providerTokensCache' = cacheAfterGet(userId)
        /\ tokenCall' = TokenCall("getValidProviderToken", userId, result,
                                   FALSE, read)
        /\ UNCHANGED <<events, driveConnections, nextToken>>
  IN IF tokens = {} THEN return(0)
     ELSE IF test = "ok" \/ test = "threw" THEN return(current)
     ELSE IF \A e \in tokens : ~e.refreshToken THEN return(0)
     ELSE IF ~envOk \/ ~refreshOk THEN return(0)
     ELSE \* googleDrive.refreshAccessToken gave a new access token
          /\ events < MaxEvents
          /\ events' = events + 1
          /\ nextToken' = nextToken + 1
          /\ storeProviderToken(
               clearProviderTokenCache(cacheAfterGet(userId), userId),
               userId, Entry(nextToken, TRUE), storeOk)
          /\ tokenCall' = TokenCall("getValidProviderToken", userId,
                                     IF storeOk THEN nextToken ELSE 0,
                                     storeOk, read)

\* a call of getValidProviderToken(userId)
GetValidProviderToken(userId, test, envOk, refreshOk, storeOk) ==
  /\ getValidProviderToken(userId, test, envOk, refreshOk, storeOk)
  /\ UNCHANGED <<requests, sharing>>

\* POST /api/auth/store-token by callerUserId with body {user_id,
\* provider_token, provider_refresh_token}; provider_token is a token the
\* provider has just issued
StoreToken(callerUserId, user_id, hasToken, refreshToken, storeOk) ==
  LET return(status) ==
        /\ tokenCall' = TokenCall("store-token", user_id, status, FALSE, FALSE)
        /\ UNCHANGED <<requests, sharing, events, providerTokensCache,
                       driveConnections, nextToken>>
  IN IF user_id = NoUser \/ ~hasToken THEN return(400)
     ELSE IF callerUserId = NoUser THEN return(401)
     ELSE IF callerUserId # user_id THEN return(403)
     ELSE /\ events < MaxEvents
          /\ events' = events + 1
          /\ nextToken' = nextToken + 1
          /\ storeProviderToken(
               clearProviderTokenCache(providerTokensCache, user_id),
               user_id, Entry(nextToken, refreshToken), storeOk)
          /\ tokenCall' = TokenCall("store-token", user_id,
                                     IF storeOk THEN 200 ELSE 500, FALSE, FALSE)
          /\ UNCHANGED <<requests, sharing>>

NextToken ==
  \/ \E u \in Users : GetProviderToken(u)
  \/ \E u \in Users, test \in TestOutcomes,
        envOk \in BOOLEAN, refreshOk \in BOOLEAN, storeOk \in BOOLEAN :
        GetValidProviderToken(u, test, envOk, refreshOk, storeOk)
  \/ \E caller \in Users \cup {NoUser}, u \in Users \cup {NoUser},
        hasToken \in BOOLEAN, refreshToken \in BOOLEAN, storeOk \in BOOLEAN :
        StoreToken(caller, u, hasToken, refreshToken, storeOk)

\* the credential functions on their own
SpecToken == Init /\ [][NextToken]_vars

\* ------------------------------- the credential functions, step by step
\* storeProviderToken and getProviderToken with a step for each side of
\* their await: the store call takes effect, then its continuation runs

\* what the steps of the credential functions leave alone
apart == <<now, isProduction, projects, folders, files, nextProject,
           nextFolder, nextFile, cred, ctxUserId, resp, noting, trashed,
           lifeReq, provider, sharing, tokenCall>>

\* storage.clearProviderTokenCache(userId); await storage.storeProviderToken
\* (userId, token, refreshToken) with a token that the provider has just
\* issued, up to the call of driveConnectionsRepository.storeTokens
StoreBegin(r, userId, refreshToken) ==
  /\ tokenReq[r].pc = "idle"
  /\ events < MaxEvents
  /\ events' = events + 1
  /\ nextToken' = nextToken + 1
  /\ providerTokensCache' = clearProviderTokenCache(providerTokensCache, userId)
  /\ tokenReq' = [tokenReq EXCEPT ![r] =
       [pc |-> "storing", fn |-> "storeProviderToken", user |-> userId,
        entry |-> Entry(nextToken, refreshToken)]]
  /\ UNCHANGED <<apart, driveConnections>>

\* the upsert of storeTokens takes effect, or fails and storeTokens throws
StoreWrite(r, ok) ==
  /\ tokenReq[r].pc = "storing"
  /\ driveConnections' =
       IF ok THEN [driveConnections EXCEPT ![tokenReq[r].user] = tokenReq[r].entry]
       ELSE driveConnections
  /\ tokenReq' = [tokenReq EXCEPT ![r] =
                    IF ok THEN [@ EXCEPT !.pc = "stored"] ELSE NoTokenCall]
  /\ UNCHANGED <<apart, events, nextToken, providerTokensCache>>

\* after the await: this.providerTokensCache.set(userId, {token, refreshToken})
StoreSet(r) ==
  /\ tokenReq[r].pc = "stored"
  /\ providerTokensCache' =
       cacheSet(providerTokensCache, tokenReq[r].user, tokenReq[r].entry)
  /\ tokenReq' = [tokenReq EXCEPT ![r] = NoTokenCall]
  /\ UNCHANGED <<apart, events, nextToken, driveConnections>>

\* getProviderToken(userId) up to the call of getTokens: a cached entry is
\* returned at once
GetBegin(r, userId) ==
  /\ tokenReq[r].pc = "idle"
  /\ tokenReq' = [tokenReq EXCEPT ![r] =
       IF providerTokensCache[userId] # {} THEN NoTokenCall
       ELSE [pc |-> "reading", fn |-> "getProviderToken", user |-> userId,
             entry |-> {}]]
  /\ UNCHANGED <<apart, events, credentials>>

\* the select of getTokens takes effect
GetRead(r) ==
  /\ tokenReq[r].pc = "reading"
  /\ tokenReq' = [tokenReq EXCEPT ![r].pc = "read",
                                  ![r].entry = driveConnections[tokenReq[r].user]]
  /\ UNCHANGED <<apart, events, credentials>>

\* after the await: if (tokens?.accessToken) this.providerTokensCache.set
GetSet(r) ==
  /\ tokenReq[r].pc = "read"
  /\ providerTokensCache' =
       IF tokenReq[r].entry # {}
         THEN cacheSet(providerTokensCache, tokenReq[r].user, tokenReq[r].entry)
       ELSE providerTokensCache
  /\ tokenReq' = [tokenReq EXCEPT ![r] = NoTokenCall]
  /\ UNCHANGED <<apart, events, nextToken, driveConnections>>

NextTokenSteps ==
  \/ \E r \in Requests, u \in Users, refreshToken \in BOOLEAN :
        StoreBegin(r, u, refreshToken)
  \/ \E r \in Requests, ok \in BOOLEAN : StoreWrite(r, ok)
  \/ \E r \in Requests : StoreSet(r)
  \/ \E r \in Requests, u \in Users : GetBegin(r, u)
  \/ \E r \in Requests : GetRead(r)
  \/ \E r \in Requests : GetSet(r)

\* calls of the credential functions in progress at the same time
SpecTokenSteps == Init /\ [][NextTokenSteps]_vars

\* ------------------------------------------------------------ share links
\* shareLinksRepository.getByProjectId: .eq('project_id', projectId)
\* .order('created_at', {ascending: false}).limit(1)
getShareLink(projectId) ==
  LET links == {l \in DOMAIN shareLinks : shareLinks[l].project_id = projectId}
  IN IF links = {} THEN {} ELSE {Newest(links)}

\* a request slot at an await of a sharing handler
Request(pc, op, userId, id, is_enabled) ==
  [pc |-> pc, op |-> op, userId |-> userId, id |-> id,
   is_enabled |-> is_enabled, status |-> 0, body |-> {}]

\* the handler of slot r answers with a status and a share link, if any
Done(r, status, links) ==
  shareReq' = [shareReq EXCEPT ![r].pc = "done", ![r].status = status,
                               ![r].body = links]

\* what the sharing handlers leave alone
others == <<requests, credentials, events>>

\* POST /api/projects/:id/share up to its look-up of the share link
ShareStart(r, userId, projectId) ==
  /\ shareReq[r].pc = "idle"
  /\ LET project == getProject(projectId)
         req == Request("lookup", "share", userId, projectId, FALSE)
         answer(status) ==
           shareReq' = [shareReq EXCEPT
                          ![r] = [req EXCEPT !.pc = "done", !.status = status]]
     IN IF requireAuth(userId) = NoUser THEN answer(401)
        ELSE IF project = {} THEN answer(404)
        ELSE IF notOwner(project, userId) THEN answer(403)
        ELSE shareReq' = [shareReq EXCEPT ![r] = req]
  /\ UNCHANGED <<others, shareLinks, nextShareLink>>

\* let shareLink = await storage.getShareLink(projectId)
ShareLookup(r) ==
  /\ shareReq[r].pc = "lookup"
  /\ LET shareLink == getShareLink(shareReq[r].id)
     IN IF shareLink = {}
          THEN shareReq' = [shareReq EXCEPT ![r].pc = "insert"]
        ELSE Done(r, 201, {[id |-> l, row |-> shareLinks[l]] : l \in shareLink})
  /\ UNCHANGED <<others, shareLinks, nextShareLink>>

\* shareLink = await storage.createShareLink({...}); the insert may throw
ShareInsert(r, ok) ==
  /\ shareReq[r].pc = "insert"
  /\ LET row == [project_id |-> shareReq[r].id, slug |-> nextShareLink,
                 is_enabled |-> TRUE, expires_at |-> NullTime,
                 updated_at |-> now]
     IN IF ok
          THEN /\ shareLinks' =
                    [l \in DOMAIN shareLinks \cup {nextShareLink} |->
                       IF l = nextShareLink THEN row ELSE shareLinks[l]]
               /\ nextShareLink' = nextShareLink + 1
               /\ Done(r, 201, {[id |-> nextShareLink, row |-> row]})
        ELSE /\ Done(r, 500, {})
             /\ UNCHANGED <<shareLinks, nextShareLink>>
  /\ UNCHANGED others

\* shareLinksRepository.update: .update({...updates, updated_at}).eq('id', id)
\* .select('*').single(); no row or an error gives null
shareLinksUpdate(id, is_enabled, ok) ==
  IF ok /\ id \in DOMAIN shareLinks
    THEN [shareLinks EXCEPT ![id].is_enabled = is_enabled,
                            ![id].updated_at = now]
  ELSE shareLinks

\* PATCH /api/share-links/:id with body {is_enabled}
PatchShareLink(r, userId, shareLinkId, is_enabled, ok) ==
  /\ shareReq[r].pc = "idle"
  /\ LET req == Request("done", "patch_share", userId, shareLinkId, is_enabled)
         \* const shareLink = await storage.getShareLink(shareLinkId)
         shareLink == getShareLink(shareLinkId)
         project == UNION {getProject(shareLinks[l].project_id) : l \in shareLink}
         answer(status, links) ==
           shareReq' = [shareReq EXCEPT
                          ![r] = [req EXCEPT !.status = status, !.body = links]]
     IN IF requireAuth(userId) = NoUser
          THEN answer(401, {}) /\ UNCHANGED shareLinks
        ELSE IF shareLink = {} THEN answer(404, {}) /\ UNCHANGED shareLinks
        ELSE IF notOwner(project, userId)
          THEN answer(403, {}) /\ UNCHANGED shareLinks
        ELSE /\ shareLinks' = shareLinksUpdate(shareLinkId, is_enabled, ok)
             /\ answer(200,
                       IF ok /\ shareLinkId \in DOMAIN shareLinks
                         THEN {[id |-> shareLinkId,
                                row |-> shareLinks'[shareLinkId]]}
                       ELSE {})
  /\ UNCHANGED <<others, nextShareLink>>

\* the response of slot r leaves
ShareRespond(r) ==
  /\ shareReq[r].pc = "done"
  /\ shareReq' = [shareReq EXCEPT ![r] = NoRequest]
  /\ UNCHANGED <<others, shareLinks, nextShareLink>>

\* a server that has just started on a store that holds one active
\* project of each user
InitShare ==
  /\ Started
  /\ isProduction = FALSE
  /\ noting = FALSE
  /\ tracking = FALSE
  /\ projects = [i \in 1..Cardinality(Users) |->
                   [user_id |-> IF i = 1 THEN "u1" ELSE "u2", title |-> "t1",
                    status |-> "active", root_drive_id |-> i,
                    is_deleted |-> FALSE, deleted_at |-> NullTime,
                    updated_at |-> now]]
  /\ nextProject = Cardinality(Users) + 1
  /\ folders = <<>>
  /\ files = <<>>
  /\ nextFolder = 1
  /\ nextFile = 1

NextShare ==
  \/ \E r \in Requests, u \in Users \cup {NoUser}, id \in ProjectIds :
        ShareStart(r, u, id)
  \/ \E r \in Requests : ShareLookup(r)
  \/ \E r \in Requests, ok \in BOOLEAN : ShareInsert(r, ok)
  \/ \E r \in Requests, u \in Users \cup {NoUser},
        id \in DOMAIN shareLinks \cup ProjectIds,
        is_enabled \in BOOLEAN, ok \in BOOLEAN :
        PatchShareLink(r, u, id, is_enabled, ok)
  \/ \E r \in Requests : ShareRespond(r)

\* the sharing handlers on their own, two requests at a time
SpecShare == InitShare /\ [][NextShare]_vars

\* ------------------------------------------------------ the public page
\* the slug that nanoid(10) gave a share link is modelled by the id of the
\* link, and UnknownSlug is a slug that no link has
UnknownSlug == NullId

\* whether a link has passed its expiry at time t:
\* data.expires_at && new Date(data.expires_at) < new Date()
neverExpired(link, t) == FALSE
expired(link, t) == link.expires_at # NullTime /\ link.expires_at < t

\* shareLinksRepository.getBySlug: .eq('slug', slug).eq('is_enabled', true)
\* .single(), null on an error (no row, several rows, a failed query) and
\* null for a link that has expired
shareLinksGetBySlug(slug, t, ok) ==
  LET rows == {l \in DOMAIN shareLinks :
                 shareLinks[l].slug = slug /\ shareLinks[l].is_enabled}
  IN IF ~ok \/ Cardinality(rows) # 1 THEN {}
     ELSE {l \in rows : ~expired(shareLinks[l], t)}

\* what the page shows of a project: the project, its folders and files
Content(projectId) ==
  [project |-> [id |-> projectId, row |-> projects[projectId]],
   folders |-> {[id |-> f, row |-> folders[f]] : f \in getFolders(projectId)},
   files |-> {[id |-> f, row |-> files[f]] : f \in getFiles(projectId)}]

\* GET /api/public/:slug, which asks for no credentials; readOk is whether
\* the queries of getFolders and getFiles succeed (they throw otherwise).
\* A project with files has getProviderToken called for its owner.
PublicView(r, slug, ok, readOk) ==
  /\ shareReq[r].pc = "idle"
  /\ LET req == Request("done", "public", NoUser, slug, FALSE)
         shareLink == shareLinksGetBySlug(slug, now, ok)
         project == UNION {getProject(shareLinks[l].project_id) : l \in shareLink}
         answer(status, content) ==
           shareReq' = [shareReq EXCEPT
                          ![r] = [req EXCEPT !.status = status, !.body = content]]
         quiet == UNCHANGED <<providerTokensCache, tokenCall>>
     IN IF shareLink = {} THEN answer(404, {}) /\ quiet
        ELSE IF project = {} THEN answer(404, {}) /\ quiet
        ELSE IF ~readOk THEN answer(500, {}) /\ quiet
        ELSE LET projectId == shareLinks[CHOOSE l \in shareLink : TRUE].project_id
                 owner == projects[projectId].user_id
             IN /\ answer(200, {Content(projectId)})
                /\ IF getFiles(projectId) = {} THEN quiet
                   ELSE /\ providerTokensCache' = cacheAfterGet(owner)
                        /\ tokenCall' =
                             TokenCall("getProviderToken", owner,
                                       IF getProviderToken(owner) = {} THEN 0
                                       ELSE (CHOOSE e \in getProviderToken(owner) :
                                               TRUE).token,
                                       FALSE, providerTokensCache[owner] = {})
  /\ UNCHANGED <<requests, events, driveConnections, nextToken,
                 shareLinks, nextShareLink>>

\* a server that has just started on a store that holds a project of u1
\* with two folders and two files, one of each in the trash, and three share
\* links of the project as the table can hold them: one that is enabled
\* and has no expiry, one that expires at time ExpiresAt, and one that
\* was switched off
ExpiresAt == 1
InitPublic ==
  /\ now = 1
  /\ events = 0
  /\ drive = NoDrive
  /\ calls = [failed |-> FALSE, other |-> FALSE]
  /\ cred = "idle"
  /\ ctxUserId = NoUser
  /\ resp = NoResponse
  /\ trashed = {}
  /\ providerTokensCache = [u \in Users |-> {}]
  /\ driveConnections =
       [u \in Users |-> IF u = "u1" THEN Entry(1, TRUE) ELSE {}]
  /\ nextToken = 2
  /\ tokenCall = NoCall
  /\ shareLinks =
       [l \in (shareLinkIdSpace + 1)..(shareLinkIdSpace + 3) |->
          [project_id |-> 1, slug |-> l,
           is_enabled |-> (l # shareLinkIdSpace + 3),
           expires_at |-> IF l = shareLinkIdSpace + 2 THEN ExpiresAt
                          ELSE NullTime,
           updated_at |-> now]]
  /\ nextShareLink = shareLinkIdSpace + 4
  /\ shareReq = [r \in Requests |-> NoRequest]
  /\ lifeReq = [r \in Requests |-> NoLife]
  /\ tokenReq = [r \in Requests |-> NoTokenCall]
  /\ isProduction = FALSE
  /\ noting = FALSE
  /\ tracking = FALSE
  /\ projects = [i \in {1} |->
                   [user_id |-> "u1", title |-> "t1", status |-> "active",
                    root_drive_id |-> 1, is_deleted |-> FALSE,
                    deleted_at |-> NullTime, updated_at |-> now]]
  /\ nextProject = 2
  /\ folders = [i \in {1, 2} |->
                  [project_id |-> 1, parent_id |-> NullId,
                   drive_folder_id |-> i, is_deleted |-> (i = 2),
                   deleted_at |-> IF i = 2 THEN now ELSE NullTime,
                   updated_at |-> now]]
  /\ nextFolder = 3
  /\ files = [i \in {1, 2} |->
                [project_id |-> 1, folder_id |-> NullId,
                 drive_file_id |-> i, file_name |-> "n1",
                 is_deleted |-> (i = 2),
                 deleted_at |-> IF i = 2 THEN now ELSE NullTime,
                 updated_at |-> now]]
  /\ nextFile = 3

\* visitors of the public page while the owner trashes and restores the
\* project
NextPublic ==
  \/ Tick
  \/ \E tok \in Tokens, hdr \in Headers : Authenticate(tok, hdr)
  \/ Handling /\ \E id \in ProjectIds : SoftDeleteProject(ctxUserId, id)
  \/ Handling /\ \E id \in ProjectIds : RestoreProject(ctxUserId, id)
  \/ Respond
  \/ \E slug \in DOMAIN shareLinks \cup {UnknownSlug}, ok \in BOOLEAN,
        readOk \in BOOLEAN : PublicView("r1", slug, ok, readOk)
  \/ ShareRespond("r1")

SpecPublic == InitPublic /\ [][NextPublic]_vars

\* ------------------------------------------- trash requests, step by step
\* The handlers of the file and folder trash routes and of empty_trash, a
\* step for each await: the reads of the row and of its project (one
\* step), getValidProviderToken, the Drive call, the store write.

\* the row of a kind with an id, as the handler holds it after its read
Held(kind, id) ==
  {[kind |-> kind, id |-> id,
    drive_id |-> IF kind = "file" THEN x.drive_file_id ELSE x.drive_folder_id] :
     x \in IF kind = "file" THEN getFile(id) ELSE getFolder(id)}

\* the handler of slot q answers
Finish(q, status) == [q EXCEPT !.pc = "done", !.status = status]

\* if (row.drive_id && providerToken) try { Drive call } ...; store write
Attend(q, x) ==
  [q EXCEPT !.cur = {x},
            !.pc = IF x.drive_id # NullId /\ q.token THEN "mirror" ELSE "write"]

\* after the store write of slot q: the response of a request on one row;
\* for empty_trash the next row of the for loop, then the folders after
\* the files, then the response
Advance(q) ==
  IF q.op # "empty_trash" THEN {Finish(q, 200)}
  ELSE IF q.todo # {}
    THEN {Attend([q EXCEPT !.todo = @ \ {x}], x) : x \in q.todo}
  ELSE IF q.phase = "file"
    THEN {[q EXCEPT !.phase = "folder", !.pc = "list", !.cur = {}]}
  ELSE {Finish([q EXCEPT !.cur = {}], 200)}

\* after the Drive call of a slot: try { await googleDrive.x(...) } catch
\* { console.error } and on to the store write
mirrorRetried(ok) == IF ok THEN "write" ELSE "mirror"
afterMirror(ok) == "write"

\* what the steps of the trash requests leave alone
aside == <<isProduction, nextProject, nextFolder, nextFile, cred, ctxUserId,
           resp, noting, trashed, tracking, calls, sharing, tokenReq>>

\* a trash request arrives in slot r: requireAuth
LifeStart(r, userId, op, kind, id) ==
  /\ lifeReq[r].pc = "idle"
  /\ events < MaxEvents
  /\ events' = events + 1
  /\ LET q == [NoLife EXCEPT !.op = op, !.kind = kind, !.id = id,
                             !.userId = userId]
     IN lifeReq' = [lifeReq EXCEPT ![r] =
                      IF requireAuth(userId) = NoUser THEN Finish(q, 401)
                      ELSE [q EXCEPT !.pc = "read"]]
  /\ UNCHANGED <<aside, credentials, store, drive, now>>

\* const row = await storage.getX(id); const project = await
\* storage.getProject(row.project_id), and the checks on them
LifeRead(r) ==
  /\ lifeReq[r].pc = "read"
  /\ LET q == lifeReq[r]
         held == Held(q.kind, q.id)
         rows == IF q.kind = "file" THEN getFile(q.id) ELSE getFolder(q.id)
         project == IF q.op = "empty_trash" THEN getProject(q.id)
                    ELSE UNION {getProject(x.project_id) : x \in rows}
     IN lifeReq' = [lifeReq EXCEPT ![r] =
          IF q.op = "empty_trash"
            THEN IF project = {} THEN Finish(q, 404)
                 ELSE IF notOwner(project, q.userId) THEN Finish(q, 403)
                 ELSE [q EXCEPT !.pc = "token", !.phase = "file"]
          ELSE IF (IF q.op = "soft_delete" THEN notFound(rows)
                   ELSE notInTrash(rows))
            THEN Finish(q, 404)
          ELSE IF notOwner(project, q.userId) THEN Finish(q, 403)
          ELSE LET x == CHOOSE h \in held : TRUE
               IN [q EXCEPT !.cur = {x},
                            !.pc = IF x.drive_id # NullId THEN "token"
                                   ELSE "write"]]
  /\ UNCHANGED <<aside, credentials, store, drive, events, now>>

\* const providerToken = await getValidProviderToken(userId)
LifeToken(r, test, envOk, refreshOk, storeOk) ==
  /\ lifeReq[r].pc = "token"
  /\ getValidProviderToken(lifeReq[r].userId, test, envOk, refreshOk, storeOk)
  /\ LET q == [lifeReq[r] EXCEPT
                 !.token = tokenCall'.result # 0,
                 !.refreshes =
                   @ + refreshAttempts(getProviderToken(lifeReq[r].userId),
                                       test, envOk)]
     IN lifeReq' = [lifeReq EXCEPT ![r] =
          IF q.op = "empty_trash" THEN [q EXCEPT !.pc = "list"]
          ELSE [q EXCEPT !.pc = IF q.token THEN "mirror" ELSE "write"]]
  /\ UNCHANGED <<aside, store, drive, now>>

\* const deletedFiles = await storage.getDeletedFiles(projectId), and
\* later the same for the folders
LifeList(r) ==
  /\ lifeReq[r].pc = "list"
  /\ LET q == lifeReq[r]
         listed == IF q.phase = "file" THEN getDeletedFiles(q.id)
                   ELSE getDeletedFolders(q.id)
         todo == UNION {Held(q.phase, f) : f \in listed}
     IN \E n \in Advance([q EXCEPT !.todo = todo]) :
          lifeReq' = [lifeReq EXCEPT ![r] = n]
  /\ UNCHANGED <<aside, credentials, store, drive, events, now>>

\* await googleDrive.trashFile / untrashFile / permanentDeleteFile
LifeMirror(r, ok) ==
  /\ lifeReq[r].pc = "mirror"
  /\ LET q == lifeReq[r]
         x == CHOOSE h \in q.cur : TRUE
     IN /\ drive' = IF ok THEN [drive EXCEPT ![x.kind][x.id] =
                                  StatusNext(@, q.op)]
                    ELSE drive
        /\ lifeReq' = [lifeReq EXCEPT
             ![r].called = Append(@, <<x.kind, x.id>>),
             ![r].mirror = IF ~ok \/ @ = "failed" THEN "failed" ELSE "ok",
             ![r].pc = afterMirror(ok)]
  /\ UNCHANGED <<aside, credentials, store, events, now>>

\* await storage.deleteX / restoreX / hardDeleteX
LifeWrite(r, ok) ==
  /\ lifeReq[r].pc = "write"
  /\ LET q == lifeReq[r]
         x == CHOOSE h \in q.cur : TRUE
         wrote == [q EXCEPT !.at = now,
                            !.store = IF ~ok \/ @ = "failed" THEN "failed"
                                      ELSE "ok"]
     IN /\ files' =
             IF x.kind # "file" THEN files
             ELSE IF q.op = "soft_delete" THEN filesSoftDelete(x.id, ok)
             ELSE IF q.op = "restore" THEN filesRestore(x.id, ok)
             ELSE filesHardDelete(x.id, ok)
        /\ folders' =
             IF x.kind # "folder" THEN folders
             ELSE IF q.op = "soft_delete" THEN foldersSoftDelete(x.id, ok)
             ELSE IF q.op = "restore" THEN foldersRestore(x.id, ok)
             ELSE foldersHardDelete(x.id, ok)
        /\ \E n \in Advance(wrote) : lifeReq' = [lifeReq EXCEPT ![r] = n]
  /\ UNCHANGED <<aside, credentials, projects, drive, events, now>>

\* the response of slot r leaves
LifeRespond(r) ==
  /\ lifeReq[r].pc = "done"
  /\ lifeReq' = [lifeReq EXCEPT ![r] = NoLife]
  /\ UNCHANGED <<aside, credentials, store, drive, events, now>>

\* time passes
LifeTick ==
  /\ events < MaxEvents
  /\ events' = events + 1
  /\ now' = now + 1
  /\ UNCHANGED <<aside, credentials, store, drive, lifeReq>>

\* a development server on a store that holds a project of u1 with a file
\* and a folder, both in the trash, u1 having connected Drive
InitLife ==
  /\ now = 1
  /\ events = 0
  /\ calls = [failed |-> FALSE, other |-> FALSE]
  /\ cred = "idle"
  /\ ctxUserId = NoUser
  /\ resp = NoResponse
  /\ trashed = {}
  /\ providerTokensCache = [u \in Users |-> {}]
  /\ driveConnections =
       [u \in Users |-> IF u = "u1" THEN Entry(1, TRUE) ELSE {}]
  /\ nextToken = 2
  /\ tokenCall = NoCall
  /\ shareLinks = <<>>
  /\ nextShareLink = shareLinkIdSpace + 1
  /\ shareReq = [r \in Requests |-> NoRequest]
  /\ lifeReq = [r \in Requests |-> NoLife]
  /\ tokenReq = [r \in Requests |-> NoTokenCall]
  /\ drive = [k \in Kinds |-> IF k = "project" THEN <<"live">>
                               ELSE <<"trashed">>]
  /\ isProduction = FALSE
  /\ noting = FALSE
  /\ tracking = FALSE
  /\ projects = [i \in {1} |->
                   [user_id |-> "u1", title |-> "t1", status |-> "active",
                    root_drive_id |-> 1, is_deleted |-> FALSE,
                    deleted_at |-> NullTime, updated_at |-> now]]
  /\ nextProject = 2
  /\ folders = [i \in {1} |->
                  [project_id |-> 1, parent_id |-> NullId,
                   drive_folder_id |-> 1, is_deleted |-> TRUE,
                   deleted_at |-> now, updated_at |-> now]]
  /\ nextFolder = 2
  /\ files = [i \in {1} |->
                [project_id |-> 1, folder_id |-> NullId, drive_file_id |-> 1,
                 file_name |-> "n1", is_deleted |-> TRUE,
                 deleted_at |-> now, updated_at |-> now]]
  /\ nextFile = 2

\* the step of slot r after an await, the probe of the token in
\* getValidProviderToken going one of the ways in tests
LifeStep(r, tests) ==
  \/ LifeRead(r)
  \/ \E test \in tests, envOk \in BOOLEAN, refreshOk \in BOOLEAN,
        storeOk \in BOOLEAN : LifeToken(r, test, envOk, refreshOk, storeOk)
  \/ LifeList(r)
  \/ \E ok \in BOOLEAN : LifeMirror(r, ok)
  \/ \E ok \in BOOLEAN : LifeWrite(r, ok)

\* a request arrives in slot r
LifeArrive(r) ==
  \/ \E u \in Users \cup {NoUser}, op \in LifecycleOps,
        kind \in {"folder", "file"} : LifeStart(r, u, op, kind, 1)
  \/ \E u \in Users \cup {NoUser} :
        LifeStart(r, u, "empty_trash", "project", 1)

\* requests served at the same time, their steps interleaved, the
\* provider accepting the token that is stored
NextLife ==
  \/ \E r \in Requests : LifeArrive(r)
  \/ \E r \in Requests : LifeStep(r, {"ok"})
  \/ \E r \in Requests : LifeRespond(r)
  \/ LifeTick

SpecLife == InitLife /\ [][NextLife]_vars

\* soft_delete and restore requests on the file and on the folder, served
\* at the same time, their steps interleaved
NextToggle ==
  \/ \E r \in Requests, u \in Users \cup {NoUser},
        op \in {"soft_delete", "restore"}, kind \in {"folder", "file"} :
        LifeStart(r, u, op, kind, 1)
  \/ \E r \in Requests : LifeRead(r)
  \/ \E r \in Requests : LifeToken(r, "ok", TRUE, TRUE, TRUE)
  \/ \E r \in Requests, ok \in BOOLEAN : LifeMirror(r, ok)
  \/ \E r \in Requests, ok \in BOOLEAN : LifeWrite(r, ok)
  \/ \E r \in Requests : LifeRespond(r)
  \/ LifeTick

SpecToggle == InitLife /\ [][NextToggle]_vars

\* one request at a time, whatever becomes of the stored token
NextLifeAlone ==
  \/ LifeArrive("r1")
  \/ LifeStep("r1", TestOutcomes)
  \/ LifeRespond("r1")

\* each await of the request returns or fails
SpecLifeAlone ==
  InitLife /\ [][NextLifeAlone]_vars /\ WF_vars(LifeStep("r1", TestOutcomes))

\* ------------------------------------------------------- reading the store
TrashOps == LifecycleOps \cup {"empty_trash", "list_trash"}

\* the table of an entity kind, before and after a step
Table(kind) ==
  CASE kind = "project" -> projects
    [] kind = "folder" -> folders
    [] OTHER -> files
TableNext(kind) ==
  CASE kind = "project" -> projects'
    [] kind = "folder" -> folders'
    [] OTHER -> files'

\* the project an existing row belongs to, and that project's owner
ProjectOf(kind, id) ==
  CASE kind = "project" -> id
    [] kind = "folder" -> folders[id].project_id
    [] OTHER -> files[id].project_id
OwnerOf(kind, id) ==
  LET p == ProjectOf(kind, id)
  IN IF p \in DOMAIN projects THEN projects[p].user_id ELSE NoUser

\* the ids of a kind that were issued and whose row is gone
Purged(kind) ==
  LET issued == CASE kind = "project" -> 1..(nextProject - 1)
                  [] kind = "folder" -> 1..(nextFolder - 1)
                  [] OTHER -> 1..(nextFile - 1)
  IN issued \ DOMAIN Table(kind)

\* r answers a request on an existing row
OnRow(r) == r.id \in DOMAIN Table(r.kind)

\* the store after the step shows the transition r reports
Applied(r) ==
  LET t == TableNext(r.kind)
  IN CASE r.op = "soft_delete" ->
            r.id \in DOMAIN t /\ t[r.id].is_deleted /\ t[r.id].deleted_at = now
       [] r.op = "restore" ->
            r.id \in DOMAIN t /\ ~t[r.id].is_deleted
              /\ t[r.id].deleted_at = NullTime
       [] OTHER -> r.id \notin DOMAIN t

\* ------------------------------------------------------------------ claims
\* C1: for each kind and each of soft_delete, restore and hard_delete, when
\* the Drive mirror call fails the handler still issues the store write,
\* the store shows the transition if that write went through, and the
\* caller is answered with success.
C1_MirrorFailureKeepsTransition ==
  [][(resp'.op \in LifecycleOps /\ resp'.mirror = "failed")
       => /\ resp'.status = 200
          /\ resp'.store # "none"
          /\ resp'.store = "ok" => Applied(resp')]_vars

C1_Witness ==
  /\ resp.op = "soft_delete" /\ resp.mirror = "failed" /\ resp.status = 200
  /\ resp.store = "ok"
  /\ OnRow(resp) /\ Table(resp.kind)[resp.id].is_deleted
  /\ \E r \in resp.pre : ~r.is_deleted

\* C2: when the store write of a soft_delete, restore or hard_delete fails,
\* the request is answered 500, never success, and the store is unchanged.
C2_StoreFailureIs500 ==
  [][(resp'.op \in LifecycleOps /\ resp'.store = "failed")
       => (resp'.status = 500 /\ UNCHANGED store)]_vars

ReplacedByUpload(kind, id) ==
  /\ kind = "file"
  /\ resp'.op = "upload"
  /\ files[id].project_id = resp'.id
  /\ \E a \in resp'.arg :
       /\ a.replace_existing
       /\ a.file_name = files[id].file_name
       /\ a.folder_id = files[id].folder_id
  /\ Cardinality(DOMAIN files \ DOMAIN files') = 1

C4_ActiveRowIs404 ==
  [][(/\ resp'.op \in {"restore", "hard_delete"}
      /\ OnRow(resp')
      /\ ~Table(resp'.kind)[resp'.id].is_deleted
      /\ resp'.caller # NoUser
      /\ resp'.caller = OwnerOf(resp'.kind, resp'.id))
       => (resp'.status = 404 /\ UNCHANGED store)]_vars

C4_Witness ==
  /\ resp.op \in {"restore", "hard_delete"} /\ resp.status = 404
  /\ OnRow(resp)
  /\ ~Table(resp.kind)[resp.id].is_deleted
  /\ resp.caller # NoUser
  /\ resp.caller = OwnerOf(resp.kind, resp.id)

\* C5: every soft_delete, restore, hard_delete, empty_trash and list_trash
\* of an authenticated caller who does not own the target's project is
\* answered 403, whatever the target's is_deleted, if the target exists.
C5_NonOwnerIs403 ==
  [][(/\ resp'.op \in TrashOps
      /\ OnRow(resp')
      /\ ProjectOf(resp'.kind, resp'.id) \in DOMAIN projects
      /\ resp'.caller # NoUser
      /\ resp'.caller # OwnerOf(resp'.kind, resp'.id))
       => resp'.status = 403]_vars

\* the project whose rows the Drive call of answer r is for
TargetProject(r) ==
  IF r.op \in LifecycleOps THEN ProjectOf(r.kind, r.id) ELSE r.id

\* C6: a request of a caller who does not own a project (another user, or
\* nobody) leaves is_deleted and deleted_at of that project and of its
\* folders and files as they are, removes none of these rows, and issues
\* no Drive trash, untrash or delete call for them.
C6_NonOwnerChangesNothing ==
  [][(resp = NoResponse /\ resp' # NoResponse)
       => /\ \A kind \in Kinds : \A id \in DOMAIN Table(kind) :
               OwnerOf(kind, id) # resp'.caller
                 => /\ id \in DOMAIN TableNext(kind)
                    /\ TableNext(kind)[id].is_deleted
                         = Table(kind)[id].is_deleted
                    /\ TableNext(kind)[id].deleted_at
                         = Table(kind)[id].deleted_at
          /\ (resp'.op \in TrashOps \cup {"upload"} /\ resp'.mirror # "none")
               => /\ TargetProject(resp') \in DOMAIN projects
                  /\ projects[TargetProject(resp')].user_id = resp'.caller]_vars

C6_Witness ==
  /\ resp.op \in LifecycleOps /\ resp.status = 403
  /\ OnRow(resp)
  /\ resp.caller # NoUser
  /\ OwnerOf(resp.kind, resp.id) \in Users \ {resp.caller}

\* C7: every trash request that carries no access token, or a token whose
\* expiry claim is earlier than the current time, is answered 401, changes
\* nothing in the store and issues no Drive call.
C7_NoCredentialIs401 ==
  [][(/\ resp = NoResponse /\ resp' # NoResponse
      /\ resp'.op \in TrashOps
      /\ cred \in {"none", "header", "expired"})
       => (resp'.status = 401 /\ UNCHANGED store /\ resp'.mirror = "none")]_vars

\* a restore has succeeded on the row the previous request soft-deleted
\* while it was active
RoundTrip(h) ==
  /\ resp.op = "restore" /\ resp.status = 200 /\ resp.store = "ok"
  /\ h.kind = resp.kind /\ h.id = resp.id
  /\ ~h.row.is_deleted

\* C8 as stated: soft_delete followed immediately by restore returns an
\* active row to its state before the soft_delete, every field included.
C8_RoundTripRestoresRow ==
  \A h \in trashed : RoundTrip(h) => Table(h.kind)[h.id] = h.row

\* C8 amended: soft_delete followed immediately by restore returns an
\* active row to its state before the soft_delete (is_deleted false,
\* deleted_at null, every other field as before) except for updated_at,
\* which is the time of the restore.
C8_RoundTripRestoresRowButStamp ==
  \A h \in trashed :
    RoundTrip(h) => Table(h.kind)[h.id] = [h.row EXCEPT !.updated_at = now]

C8_Witness ==
  \E h \in trashed : RoundTrip(h) /\ h.row.updated_at # now

\* C9: after empty_trash of a project by its owner has answered, no file
\* or folder row of the project with is_deleted true remains, and every
\* row with is_deleted false and every row of another project is as it
\* was, whichever Drive calls failed.
C9_EmptyTrashPurges ==
  [][(resp'.op = "empty_trash" /\ resp'.status = 200)
       => /\ \A f \in DOMAIN files' :
               ~(files'[f].project_id = resp'.id /\ files'[f].is_deleted)
          /\ \A f \in DOMAIN folders' :
               ~(folders'[f].project_id = resp'.id /\ folders'[f].is_deleted)
          /\ \A f \in DOMAIN files :
               (~files[f].is_deleted \/ files[f].project_id # resp'.id)
                 => (f \in DOMAIN files' /\ files'[f] = files[f])
          /\ \A f \in DOMAIN folders :
               (~folders[f].is_deleted \/ folders[f].project_id # resp'.id)
                 => (f \in DOMAIN folders' /\ folders'[f] = folders[f])
          /\ projects' = projects]_vars

\* C10: a soft_delete by the owner on a row that is already soft-deleted is
\* answered 404 and leaves is_deleted and deleted_at as they are.
C10_TrashedRowIs404 ==
  [][(/\ resp'.op = "soft_delete"
      /\ OnRow(resp')
      /\ Table(resp'.kind)[resp'.id].is_deleted
      /\ resp'.caller # NoUser
      /\ resp'.caller = OwnerOf(resp'.kind, resp'.id))
       => /\ resp'.status = 404
          /\ resp'.id \in DOMAIN TableNext(resp'.kind)
          /\ TableNext(resp'.kind)[resp'.id].is_deleted
          /\ TableNext(resp'.kind)[resp'.id].deleted_at
               = Table(resp'.kind)[resp'.id].deleted_at]_vars

C12_CreateProjectSaga ==
  [][(resp = NoResponse /\ resp'.op = "create" /\ resp'.kind = "project")
       => /\ projects' # projects
               => /\ \E a \in resp'.arg : a.container = "created"
                  /\ resp'.store = "ok"
                  /\ DOMAIN projects' = DOMAIN projects \cup {resp'.id}
                  /\ \A p \in DOMAIN projects : projects'[p] = projects[p]
          /\ resp'.store = "failed"
               => /\ resp'.arg # {}
                  /\ \A a \in resp'.arg :
                       a.container = "created" /\ a.cleanups = 1
                  /\ projects' = projects
                  /\ resp'.status >= 400
          /\ (\A a \in resp'.arg : a.container # "created")
               => (projects' = projects /\ resp'.status >= 400)]_vars

\* the insert of a create-project request failed after its container was
\* created
C12_Witness ==
  /\ resp.op = "create" /\ resp.kind = "project"
  /\ resp.store = "failed" /\ resp.status = 500
  /\ \E a \in resp.arg : a.container = "created" /\ a.cleanups = 1

\* C13: list_trash of a project by its owner is answered with exactly the
\* files and folders of that project whose own is_deleted is true, whatever
\* the flag of the folder a file is in.
C13_ListTrashByOwnFlag ==
  [][(/\ resp = NoResponse /\ resp'.op = "list_trash"
      /\ resp'.id \in DOMAIN projects
      /\ ctxUserId # NoUser
      /\ ctxUserId = projects[resp'.id].user_id)
       => /\ resp'.status = 200
          /\ resp'.arg # {}
          /\ \A a \in resp'.arg :
               /\ a.files = {f \in DOMAIN files :
                               files[f].project_id = resp'.id
                                 /\ files[f].is_deleted}
               /\ a.folders = {f \in DOMAIN folders :
                                 folders[f].project_id = resp'.id
                                   /\ folders[f].is_deleted}]_vars

\* a listing that holds a soft-deleted file of an active folder
C13_Witness ==
  /\ resp.op = "list_trash" /\ resp.status = 200
  /\ \E a \in resp.arg : \E f \in a.files :
       /\ files[f].is_deleted
       /\ files[f].folder_id \in DOMAIN folders
       /\ ~folders[files[f].folder_id].is_deleted

\* the project rows of an owner
ProjectsOf(u) == {p \in DOMAIN projects : projects[p].user_id = u}

\* the two lists partition each owner's rows by is_deleted, and a list
\* endpoint answers with its list
ListsPartition ==
  /\ \A u \in Users :
       /\ getProjects(u) \cup getDeletedProjects(u) = ProjectsOf(u)
       /\ getProjects(u) \cap getDeletedProjects(u) = {}
       /\ \A p \in ProjectsOf(u) :
            /\ p \in getProjects(u) <=> ~projects[p].is_deleted
            /\ p \in getDeletedProjects(u) <=> projects[p].is_deleted
  /\ (resp.op = "list_projects" /\ resp.caller # NoUser)
       => (/\ resp.status = 200
           /\ resp.arg = {[projects |-> {p \in ProjectsOf(resp.caller) :
                                           ~projects[p].is_deleted}]})
  /\ (resp.op = "list_deleted_projects" /\ resp.caller # NoUser)
       => (/\ resp.status = 200
           /\ resp.arg = {[projects |-> {p \in ProjectsOf(resp.caller) :
                                           projects[p].is_deleted}]})

\* an applied soft_delete or restore of a project shows in the lists
ListsFollow ==
  \A u \in Users : \A p \in DOMAIN projects :
    (/\ resp = NoResponse /\ resp'.kind = "project"
     /\ resp'.status = 200 /\ resp'.store = "ok"
     /\ resp'.caller = u /\ resp'.id = p)
      => /\ (resp'.op = "soft_delete")
              => (p \notin getProjects(u)' /\ p \in getDeletedProjects(u)')
         /\ (resp'.op = "restore")
              => (p \in getProjects(u)' /\ p \notin getDeletedProjects(u)')

ProjectFrame ==
  \A p \in DOMAIN projects \cap DOMAIN projects' :
    /\ projects'[p].root_drive_id = projects[p].root_drive_id
    /\ (\/ projects'[p].is_deleted # projects[p].is_deleted
        \/ projects'[p].deleted_at # projects[p].deleted_at)
         => (/\ resp'.op \in {"soft_delete", "restore"}
             /\ resp'.kind = "project" /\ resp'.id = p)

\* C15 as stated: root_drive_id never changes, is_deleted and deleted_at
\* change only by soft_delete and restore, and PATCH /projects/:id changes
\* no field of a project row other than title and status.
C15_PatchOnlyTitleAndStatus ==
  [][/\ ProjectFrame
     /\ (resp = NoResponse /\ resp'.op = "patch")
          => (/\ DOMAIN projects' = DOMAIN projects
              /\ \A p \in DOMAIN projects :
                   projects'[p] = [projects[p] EXCEPT
                                     !.title = projects'[p].title,
                                     !.status = projects'[p].status]
              /\ UNCHANGED <<folders, files>>)]_vars

\* C15 amended: root_drive_id never changes, is_deleted and deleted_at
\* change only by soft_delete and restore, and PATCH /projects/:id changes
\* no field of a project row other than title, status and updated_at, and
\* these only in the addressed row.
C15_PatchOnlyTitleStatusStamp ==
  [][/\ ProjectFrame
     /\ (resp = NoResponse /\ resp'.op = "patch")
          => (/\ DOMAIN projects' = DOMAIN projects
              /\ \A p \in DOMAIN projects :
                   projects'[p] =
                     IF p = resp'.id
                       THEN [projects[p] EXCEPT
                               !.title = projects'[p].title,
                               !.status = projects'[p].status,
                               !.updated_at = projects'[p].updated_at]
                     ELSE projects[p]
              /\ UNCHANGED <<folders, files>>)]_vars

\* a PATCH has changed the status of a soft-deleted project
C15_Witness ==
  /\ resp.op = "patch" /\ resp.status = 200 /\ resp.store = "ok"
  /\ resp.id \in DOMAIN projects
  /\ projects[resp.id].status = "archived"
  /\ projects[resp.id].is_deleted
  /\ projects[resp.id].root_drive_id = resp.id

\* the call just made is a getValidProviderToken that refreshed the
\* credential of its user
Refreshed(u) ==
  /\ tokenCall'.fn = "getValidProviderToken"
  /\ tokenCall'.user = u
  /\ tokenCall'.refreshed

C17_OneShareLinkPerProject ==
  \A p \in DOMAIN projects :
    Cardinality({l \in DOMAIN shareLinks : shareLinks[l].project_id = p}) <= 1

\* C18: a PATCH /api/share-links/:id by the owner of the link's project,
\* with the id of an existing share link and a value for is_enabled, sets
\* is_enabled of that link to the value and answers with the updated link.
C18_PatchSetsIsEnabled ==
  [][\A r \in Requests : \A l \in DOMAIN shareLinks :
       (/\ shareReq[r].pc = "idle"
        /\ shareReq'[r].op = "patch_share"
        /\ shareReq'[r].id = l
        /\ shareReq'[r].userId # NoUser
        /\ shareReq'[r].userId = projects[shareLinks[l].project_id].user_id)
         => (/\ shareReq'[r].status = 200
             /\ l \in DOMAIN shareLinks'
             /\ shareLinks'[l].is_enabled = shareReq'[r].is_enabled
             /\ shareReq'[r].body = {[id |-> l, row |-> shareLinks'[l]]})]_vars

\* the object of a row has the status that the row calls for, and the
\* object of a row that is gone is absent
Agrees(kind, id) ==
  drive[kind][id] =
    IF id \notin DOMAIN Table(kind) THEN "absent"
    ELSE IF Table(kind)[id].is_deleted THEN "trashed"
    ELSE "live"

\* C19: while no provider call has failed or been left out, after each
\* completed request of a run of creations, soft_deletes, restores and
\* hard_deletes the provider's status of every row's object agrees with
\* the store: trashed exactly when is_deleted is true, absent exactly when
\* the row is gone.
C19_DriftOnlyFromFailedMirror ==
  (tracking /\ ~calls.failed /\ ~calls.other /\ resp = NoResponse)
    => \A kind \in Kinds : \A id \in DOMAIN drive[kind] : Agrees(kind, id)

\* C20: in every reachable state every folder row and every file row
\* references a project row of the store, every folder row with a parent_id
\* references a folder row of the store, and every file row with a
\* folder_id references a folder row of the store; so no hard_delete of a
\* project or folder leaves rows that point to it.
C20_ReferencesExist ==
  /\ \A f \in DOMAIN folders :
       /\ folders[f].project_id \in DOMAIN projects
       /\ (folders[f].parent_id # NullId
             => folders[f].parent_id \in DOMAIN folders)
  /\ \A f \in DOMAIN files :
       /\ files[f].project_id \in DOMAIN projects
       /\ (files[f].folder_id # NullId
             => files[f].folder_id \in DOMAIN folders)

\* C23: a soft_delete, restore or hard_delete of one entity leaves the
\* row of every other entity as it was: the folders and files of a project
\* or folder keep their is_deleted and deleted_at, and the project and the
\* parent folder of a folder or file keep theirs.
C23_OtherRowsUnchanged ==
  [][resp'.op \in LifecycleOps
       => \A kind \in Kinds : \A id \in DOMAIN Table(kind) :
            (kind # resp'.kind \/ id # resp'.id)
              => (id \in DOMAIN TableNext(kind)
                    /\ TableNext(kind)[id] = Table(kind)[id])]_vars

\* a folder that holds an active folder has been soft-deleted
C23_Witness ==
  /\ resp.op = "soft_delete" /\ resp.kind = "folder" /\ resp.store = "ok"
  /\ \E f \in DOMAIN folders :
       folders[f].parent_id = resp.id /\ ~folders[f].is_deleted
  /\ resp.id \in DOMAIN folders /\ folders[resp.id].is_deleted

\* the Drive parent that the body's parent folder id calls for: the
\* folder's reference if the folder exists and has one, else the root
\* reference of the project
ParentCalledFor(projectId, parent_folder_id) ==
  IF parent_folder_id \in DOMAIN folders
       /\ folders[parent_folder_id].drive_folder_id # NullId
    THEN {DriveRef("folder", folders[parent_folder_id].drive_folder_id)}
  ELSE {DriveRef("project", projects[projectId].root_drive_id)}

\* C24: when a folder or a file is created in a project, the Drive parent
\* used is the reference of the parent folder given in the body if that
\* folder exists and has a reference, and the root reference of the
\* project otherwise; the new row records the given parent folder id and
\* the Drive id that the provider returned.
C24_ParentResolution ==
  [][/\ (resp'.op = "create" /\ resp'.kind = "folder" /\ resp'.status = 201)
         => \A a \in resp'.arg :
              /\ a.parent = ParentCalledFor(resp'.id, a.parent_folder_id)
              /\ nextFolder \in DOMAIN folders'
              /\ folders'[nextFolder].parent_id = a.parent_folder_id
              /\ folders'[nextFolder].drive_folder_id = a.drive_id
     /\ (resp'.op = "upload" /\ resp'.status = 201)
         => \A a \in resp'.arg :
              a.created =>
                /\ a.parent = ParentCalledFor(resp'.id, a.folder_id)
                /\ nextFile \in DOMAIN files'
                /\ files'[nextFile].folder_id = a.folder_id
                /\ files'[nextFile].drive_file_id = a.drive_id]_vars

\* a folder has been created in an existing folder, and the folder given
\* as the parent of a created folder does not exist
C24_Witness ==
  /\ resp.op = "create" /\ resp.kind = "folder" /\ resp.status = 201
  /\ \E a \in resp.arg :
       a.parent_folder_id # NullId /\ a.parent_folder_id \notin DOMAIN folders
  /\ \E f \in DOMAIN folders :
       folders[f].parent_id \in DOMAIN folders
  /\ \E f \in DOMAIN files : files[f].folder_id \in DOMAIN folders

\* C21: while a restore is served at the same time as a hard_delete or an
\* empty_trash on the same file or folder, their store reads and writes
\* interleaved, no step removes a row whose is_deleted is false: a row
\* whose restore has been written is not purged because of an earlier read
\* that found is_deleted true.
C21_NoPurgeOfRestoredRow ==
  [][\A kind \in {"folder", "file"} : \A id \in DOMAIN Table(kind) :
       id \notin DOMAIN TableNext(kind) => Table(kind)[id].is_deleted]_vars

\* the trash requests that have arrived so far, where no token is
\* refreshed: events counts them and the ticks of the clock
Arrived == events - (now - 1)

\* the two slots have answered a soft_delete and a restore of the row of
\* a kind with an id, the only requests so far
BothAnswered(kind, id) ==
  /\ Arrived = 2
  /\ \A r \in Requests :
       /\ lifeReq[r].pc = "done" /\ lifeReq[r].status = 200
       /\ lifeReq[r].kind = kind /\ lifeReq[r].id = id
  /\ {lifeReq[r].op : r \in Requests} = {"soft_delete", "restore"}

\* the row shows the transition of the request q, written at q.at
ResultOf(q, row) ==
  IF q.op = "soft_delete" THEN row.is_deleted /\ row.deleted_at = q.at
  ELSE ~row.is_deleted /\ row.deleted_at = NullTime

\* C22: however the steps of soft_delete and restore requests on the same
\* row interleave, in every state each row has is_deleted true exactly
\* when its deleted_at is not null, and once both requests have answered
\* the row's is_deleted and deleted_at are those of exactly one of the two
\* transitions that the store applied, the other being overwritten.
C22_LastWriteWins ==
  \A kind \in Kinds : \A id \in DOMAIN Table(kind) :
    LET row == Table(kind)[id]
        applied == {r \in Requests : lifeReq[r].store = "ok"}
    IN /\ row.is_deleted <=> row.deleted_at # NullTime
       /\ (BothAnswered(kind, id) /\ applied # {})
            => Cardinality({r \in applied : ResultOf(lifeReq[r], row)}) = 1

\* a soft_delete and a restore of the same row have both answered, the
\* store applied both writes, after a tick of the clock between them
C22_Witness ==
  \E kind \in {"folder", "file"} :
    /\ BothAnswered(kind, 1)
    /\ \A r \in Requests : lifeReq[r].store = "ok"
    /\ lifeReq["r1"].at # lifeReq["r2"].at
    /\ 1 \in DOMAIN Table(kind)

\* C27: when a soft_delete and a restore of the same row are served at
\* the same time and every Drive call succeeds, then once both have
\* answered the object is trashed at the provider exactly when the row's
\* is_deleted is true.
C27_MirrorFollowsStoreOrder ==
  \A kind \in {"folder", "file"} : \A id \in DOMAIN Table(kind) :
    (BothAnswered(kind, id) /\ \A r \in Requests : lifeReq[r].mirror = "ok")
      => (drive[kind][id] = "trashed" <=> Table(kind)[id].is_deleted)

\* no Drive call of the request in slot r was made twice for the same
\* row, and its token was refreshed at most once
AttemptedOnce(r) ==
  LET called == lifeReq[r].called
  IN /\ \A i \in DOMAIN called : \A j \in DOMAIN called :
          called[i] = called[j] => i = j
     /\ lifeReq[r].refreshes <= 1

\* C25: every soft_delete, restore, hard_delete and empty_trash request is
\* answered in the end, given that each store call and each provider call
\* returns or fails; within a request the Drive call is attempted at most
\* once for each row and the token refresh at most once, a failed call
\* not being retried.
C25_AnsweredWithoutRetry ==
  /\ [](\A r \in Requests : AttemptedOnce(r))
  /\ (lifeReq["r1"].pc # "idle") ~> (lifeReq["r1"].pc = "done")

\* a request on one row has answered after a refresh of its token and a
\* Drive call that failed
C25_Witness ==
  /\ lifeReq["r1"].pc = "done" /\ lifeReq["r1"].status = 200
  /\ lifeReq["r1"].op \in LifecycleOps
  /\ lifeReq["r1"].refreshes = 1
  /\ lifeReq["r1"].mirror = "failed"
  /\ Len(lifeReq["r1"].called) = 1

\* C26: in every state, also when calls of storeProviderToken and
\* getProviderToken for the same user interleave at their awaits, a cache
\* entry of a user holds the access token that the durable store holds
\* for that user, never an older one.
C26_CacheAgreesWithStore ==
  \A u \in Users : \A c \in providerTokensCache[u] :
    \E d \in driveConnections[u] : c.token = d.token

\* C28: in every state no owner has two active projects (is_deleted false)
\* with the same title, whatever create, PATCH, soft delete and restore
\* requests were served.
C28_ActiveTitlesUnique ==
  \A p, q \in DOMAIN projects :
    (/\ p # q
     /\ projects[p].user_id = projects[q].user_id
     /\ ~projects[p].is_deleted
     /\ ~projects[q].is_deleted)
      => projects[p].title # projects[q].title

\* C29: a response of GET /api/public/:slug shows no folder and no file
\* whose is_deleted is true, and shows nothing of a project whose
\* is_deleted is true.
C29_NoDeletedEntityShown ==
  [][\A r \in Requests :
       (shareReq[r].pc = "idle" /\ shareReq'[r].op = "public") =>
         \A content \in shareReq'[r].body :
           /\ ~content.project.row.is_deleted
           /\ \A f \in content.folders \cup content.files : ~f.row.is_deleted]_vars

\* a share link with the given slug exists, is enabled and has not expired
ValidLink(slug) ==
  \E l \in DOMAIN shareLinks :
    /\ shareLinks[l].slug = slug
    /\ shareLinks[l].is_enabled
    /\ shareLinks[l].expires_at = NullTime \/ shareLinks[l].expires_at >= now

\* C30: GET /api/public/:slug returns content only when a share link with
\* that slug exists, is enabled and has an expires_at that is null or not
\* earlier than the current time; otherwise it answers 404 without data.
C30_ContentOnlyThroughValidLink ==
  [][\A r \in Requests :
       (shareReq[r].pc = "idle" /\ shareReq'[r].op = "public") =>
         /\ shareReq'[r].body # {} => ValidLink(shareReq'[r].id)
         /\ ~ValidLink(shareReq'[r].id) =>
              shareReq'[r].status = 404 /\ shareReq'[r].body = {}]_vars

\* a visitor was refused with the slug of a link that expired a moment ago
C30_Witness ==
  /\ shareReq["r1"].op = "public"
  /\ shareReq["r1"].status = 404
  /\ shareReq["r1"].id \in DOMAIN shareLinks
  /\ shareLinks[shareReq["r1"].id].is_enabled
  /\ shareLinks[shareReq["r1"].id].expires_at = now - 1

====
